---- MODULE Spec2Model ----
(***************************************************************************)
(* Model of the alexa-os voice agent core:                                 *)
(*   - the MCP desired-state store      (server/src/mcp_config.py)         *)
(*   - the MCP server manager           (server/src/mcp_manager.py)        *)
(*   - the MCP part of the RPC surface  (server/src/rpc_handlers.py)       *)
(*   - the wake-word detector and gate  (server/src/wake_word.py)          *)
(*                                                                         *)
(* Python dicts are functions whose DOMAIN is the key set.  asyncio is     *)
(* modelled by its suspension points: a coroutine runs without             *)
(* interleaving from one await to the next, so every task step below is    *)
(* the code between two awaits and other work runs only while no task is   *)
(* in the middle of such a stretch (see Quiescent).                        *)
(***************************************************************************)
EXTENDS Integers, Sequences, FiniteSets, TLC

(***************************************************************************)
(* Value universes                                                         *)
(***************************************************************************)
NoneV == "None"

Names == {"A", "B"}
URLs == {"u1", "u2"}
Commands == {"c1"}
Types == {"http", "stdio"}
Tasks == {"t1", "t2"}

\* allowed_tools: Optional[list[str]]; None is kept apart from the empty list
NoneTools == [isNone |-> TRUE, list |-> <<>>]
SomeTools(l) == [isNone |-> FALSE, list |-> l]

\* What the endpoint of a server answers to the catalog listing:
\*   "nolist"      the tools/list call fails (transport error, bad status,
\*                 JSON-RPC error, malformed payload)
\*   "one", "two"  tools/list answers that catalog
ListAnswers == {"nolist", "one", "two"}

RemoteCatalog(r) ==
    IF r = "one" THEN <<"t1">>
    ELSE IF r = "two" THEN <<"t1", "t2">>
    ELSE <<>>

(***************************************************************************)
(* Dict helpers                                                            *)
(***************************************************************************)
EmptyDict == <<>>
Put(d, k, v) == [x \in (DOMAIN d) \cup {k} |-> IF x = k THEN v ELSE d[x]]
Del(d, k) == [x \in (DOMAIN d) \ {k} |-> d[x]]
Range(s) == {s[i] : i \in DOMAIN s}

VARIABLES
    file,            \* the persisted mcp_servers.json
    servers,         \* MCPServerManager._servers: name -> transport kind
    server_configs,  \* MCPServerManager._server_configs: name -> config
    tool_cache,      \* MCPServerManager._tool_cache: name -> catalog
    status,          \* AgentRpcHandlers._mcp_server_status
    rpc_servers,     \* AgentRpcHandlers._mcp_servers (names of the list)
    rpc_bound,       \* AgentRpcHandlers._mcp_tool_cache is the manager's dict
    task,            \* per task: the manager coroutine's position and locals
    lastEnabled,     \* enabled names of the snapshot the manager loaded last
    sinceReload,     \* "no": the last manager operation is not a reload;
                     \* "same"/"changed": it is, and the file still reads /
                     \* no longer reads as that reload read it
    prevFail,        \* the names whose connect failed in that reload
    ret,             \* the synchronous call that has just returned
    prevFile         \* the file as it was when that call began

mgrVars == <<file, servers, server_configs, tool_cache, status, rpc_servers,
             rpc_bound, task, lastEnabled, sinceReload, prevFail, ret,
             prevFile>>

VARIABLES
    phase            \* position in the disable-then-enable scenario (SpecTrip)

VARIABLES
    now,                  \* time.time(), in ticks
    running,              \* WakeWordDetector._running (and _model is loaded)
    on_wake_word,         \* WakeWordDetector._on_wake_word: "none", "agent" or "gate"
    threshold,            \* WakeWordDetector._threshold, in tenths
    cooldown_seconds,     \* WakeWordDetector._cooldown_seconds, in ticks
    last_detection_time,  \* WakeWordDetector._last_detection_time
    audio_buffer,         \* length of WakeWordDetector._audio_buffer, in blocks
    timeout_seconds,      \* WakeWordGatedSession._timeout_seconds, in ticks
    is_active,            \* WakeWordGatedSession._is_active
    last_activity_time,   \* WakeWordGatedSession._last_activity_time
    timeout_task,         \* WakeWordGatedSession._timeout_task and its position
    pending,              \* wake word handler tasks created and not yet run
    on_activate_calls,    \* how often on_activate was invoked
    on_deactivate_calls,  \* how often on_deactivate was invoked
    suppressed,           \* a qualifying frame was rejected by the cooldown
    lapsed,               \* since the gate went ACTIVE, timeout_seconds have
                          \* at some moment passed without a refresh
    stopped,              \* WakeWordGatedSession.stop has returned
    raised,               \* the last call of process_audio ended by an exception
    orphans               \* monitor tasks that _timeout_task no longer refers
                          \* to and that have not ended

gateVars == <<now, running, on_wake_word, threshold, cooldown_seconds,
              last_detection_time, audio_buffer, timeout_seconds, is_active,
              last_activity_time, timeout_task, pending, on_activate_calls,
              on_deactivate_calls, suppressed, lapsed, stopped, raised, orphans>>

VARIABLES
    observed,        \* what the Control Surface read before and during a pass
    rpc,             \* the last mutating Control Surface call and what it found
    fetch,           \* a call of fetch_mcp_tools: the response and what it returned
    det,             \* the last call of the detector: its arguments and what it did
    wake_word_state  \* AgentRpcHandlers._wake_word_state

vars == <<mgrVars, phase, gateVars, observed, rpc, fetch, det, wake_word_state>>

(***************************************************************************)
(* mcp_config.py: the desired-state store                                  *)
(***************************************************************************)
MCPServerConfig(name, type, url, headers, command, args, env, cwd, enabled, allowed) ==
    [name |-> name, type |-> type, url |-> url, headers |-> headers,
     command |-> command, args |-> args, env |-> env, cwd |-> cwd,
     enabled |-> enabled, allowed_tools |-> allowed]

\* Mutant: only the http requirement is validated
validate_type_fields_http_only(c) == ~(c.type = "http" /\ c.url = NoneV)

\* model_validator: HTTP servers require url, stdio servers require command
validate_type_fields(c) ==
    /\ ~(c.type = "http" /\ c.url = NoneV)
    /\ ~(c.type = "stdio" /\ c.command = NoneV)

\* A file that is missing, unparsable or schema-invalid loads as no servers.
FileOf(list) == [ok |-> TRUE, servers |-> list]
BrokenFile == [ok |-> FALSE, servers |-> <<>>]
load_config(f) == IF f.ok THEN f.servers ELSE <<>>

\* save_config: "ok" writes; "fail_early" fails in mkdir/open and leaves the
\* file alone; "fail_late" fails after open(.., "w") truncated the file.
SaveOutcomes == {"ok", "fail_early", "fail_late"}
save_config(f, list, o) ==
    IF o = "ok" THEN FileOf(list)
    ELSE IF o = "fail_early" THEN f
    ELSE BrokenFile

Result(f, ok, msg) == [file |-> f, ok |-> ok, msg |-> msg]

\* Mutant: the URL of a new entry is not compared with the stored ones
add_server_without_url_check(f, c, o) ==
    LET config == load_config(f) IN
    IF \E i \in DOMAIN config : config[i].name = c.name
    THEN Result(f, FALSE, "name exists")
    ELSE IF ~validate_type_fields(c)
    THEN Result(f, FALSE, "invalid")
    ELSE Result(save_config(f, Append(config, c), o), o = "ok",
                IF o = "ok" THEN "added" ELSE "save failed")

add_server(f, c, o) ==
    LET config == load_config(f) IN
    IF \E i \in DOMAIN config : config[i].name = c.name
    THEN Result(f, FALSE, "name exists")
    ELSE IF c.type = "http" /\ c.url # NoneV
            /\ \E i \in DOMAIN config : config[i].url = c.url
    THEN Result(f, FALSE, "url exists")
    ELSE IF ~validate_type_fields(c)
    THEN Result(f, FALSE, "invalid")
    ELSE Result(save_config(f, Append(config, c), o), o = "ok",
                IF o = "ok" THEN "added" ELSE "save failed")

remove_server(f, name, o) ==
    LET config == load_config(f)
        kept == SelectSeq(config, LAMBDA s : s.name # name)
    IN  IF Len(kept) = Len(config)
        THEN Result(f, FALSE, "not found")
        ELSE Result(save_config(f, kept, o), o = "ok",
                    IF o = "ok" THEN "removed" ELSE "save failed")

\* The first entry of that name, as the for loop finds it
FirstIndex(config, name) ==
    CHOOSE i \in DOMAIN config :
        /\ config[i].name = name
        /\ \A j \in DOMAIN config : config[j].name = name => i <= j

\* enabled: "toggle" is the None argument, "on"/"off" are True/False
toggle_server(f, name, enabled, o) ==
    LET config == load_config(f) IN
    IF ~\E i \in DOMAIN config : config[i].name = name
    THEN Result(f, FALSE, "not found")
    ELSE LET i == FirstIndex(config, name)
             v == IF enabled = "toggle" THEN ~config[i].enabled
                  ELSE enabled = "on"
             new == [config EXCEPT ![i].enabled = v]
         IN  Result(save_config(f, new, o), o = "ok",
                    IF o = "ok" THEN "toggled" ELSE "save failed")

update_allowed_tools(f, name, allowed, o) ==
    LET config == load_config(f) IN
    IF ~\E i \in DOMAIN config : config[i].name = name
    THEN Result(f, FALSE, "not found")
    ELSE LET i == FirstIndex(config, name)
             new == [config EXCEPT ![i].allowed_tools = allowed]
         IN  Result(save_config(f, new, o), o = "ok",
                    IF o = "ok" THEN "updated" ELSE "save failed")

\* get_server: the first entry of that name (HasServer: it is not None)
HasServer(f, name) == \E i \in DOMAIN load_config(f) : load_config(f)[i].name = name
get_server(f, name) == load_config(f)[FirstIndex(load_config(f), name)]

ConfigNames(config) == {config[i].name : i \in DOMAIN config}
EnabledNames(config) == {config[i].name : i \in {j \in DOMAIN config : config[j].enabled}}

(***************************************************************************)
(* rpc_handlers.py: status records                                         *)
(***************************************************************************)
ConnectedStatus(n) == [status |-> "connected", error |-> NoneV, tool_count |-> n]
\* error is str(e) of the exception caught; one token stands for the text
ErrorStatus(e) == [status |-> "error", error |-> e, tool_count |-> 0]
Reason == "str(e)"

(***************************************************************************)
(* mcp_manager.py: the manager's coroutines                                *)
(*                                                                         *)
(* pc of a task: "idle"; "disc", "conn", "publish", "done" are positions   *)
(* inside a synchronous stretch; "closing", "init", "fetch" are the awaits *)
(* on transport close, transport initialize and the catalog fetch.         *)
(***************************************************************************)
NoCfg == MCPServerConfig(NoneV, "http", NoneV, NoneV, NoneV, NoneV, NoneV, NoneV,
                         FALSE, NoneTools)

IdleTask ==
    [pc |-> "idle", op |-> "none", snap |-> <<>>, todo |-> {}, cur |-> NoneV,
     cfg |-> NoCfg, after |-> "none", result |-> "none",
     \* what the operation has done so far (observation only)
     nconn |-> 0, ndisc |-> 0, fail |-> FALSE, okNames |-> {}, failNames |-> {},
     got |-> EmptyDict, repeat |-> FALSE, prevFail |-> {}]

Suspended == {"closing", "init", "fetch"}
AllIdle == \A t \in Tasks : task[t].pc = "idle"
\* The event loop is free: no call is returning, no coroutine is mid-stretch
Quiescent ==
    /\ ret.op = "none"
    /\ \A t \in Tasks : task[t].pc \in Suspended \cup {"idle"}

\* config_servers = {s.name: s for s in config.servers}: the last one wins
config_servers(config, name) ==
    config[CHOOSE i \in DOMAIN config :
               /\ config[i].name = name
               /\ \A j \in DOMAIN config : config[j].name = name => j <= i]

\* Mutant: only names removed from the file are disconnected
ShouldDisconnect_removed_only(config, name) == name \notin ConfigNames(config)

\* Mutant: only names disabled in the file are disconnected
ShouldDisconnect_disabled_only(config, name) ==
    name \in ConfigNames(config) /\ name \notin EnabledNames(config)

\* Mutant: a configuration that loads as empty disconnects nothing
ShouldDisconnect_unless_empty(config, name) ==
    /\ config # <<>>
    /\ (name \notin ConfigNames(config) \/ name \notin EnabledNames(config))

\* reload, line 226: removed from the file, or disabled
ShouldDisconnect(config, name) ==
    name \notin ConfigNames(config) \/ name \notin EnabledNames(config)

\* Mutant: the two config objects are compared by identity; every load
\* builds new objects
_config_changed_identity(old, new) == TRUE

\* Mutant: only a change of the transport kind counts
_config_changed_type_only(old, new) == old.type # new.type

_config_changed(old, new) ==
    IF old.type # new.type THEN TRUE
    ELSE IF old.type = "http"
    THEN old.url # new.url \/ old.headers # new.headers
    ELSE \/ old.command # new.command
         \/ old.args # new.args
         \/ old.env # new.env
         \/ old.cwd # new.cwd

\* Mutant: a failed connect is not caught and ends the whole operation
ConnectReturn_abort(tk, success) ==
    LET seen == [tk EXCEPT !.fail = tk.fail \/ ~success,
                           !.okNames = IF success THEN tk.okNames \cup {tk.cur}
                                       ELSE tk.okNames \ {tk.cur},
                           !.failNames = IF success THEN tk.failNames \ {tk.cur}
                                         ELSE tk.failNames \cup {tk.cur}]
    IN  IF ~success THEN [seen EXCEPT !.pc = "done", !.result = "raised"]
        ELSE IF tk.op = "add" THEN [seen EXCEPT !.pc = "publish", !.result = "true"]
        ELSE [seen EXCEPT !.pc = "conn"]

\* What the caller of _connect_server does once it has returned
ConnectReturn(tk, success) ==
    LET seen == [tk EXCEPT !.fail = tk.fail \/ ~success,
                           !.okNames = IF success THEN tk.okNames \cup {tk.cur}
                                       ELSE tk.okNames \ {tk.cur},
                           !.failNames = IF success THEN tk.failNames \ {tk.cur}
                                         ELSE tk.failNames \cup {tk.cur}]
    IN  IF tk.op = "add"
        THEN [seen EXCEPT !.pc = IF success THEN "publish" ELSE "done",
                          !.result = IF success THEN "true" ELSE "false"]
        ELSE [seen EXCEPT !.pc = "conn"]

\* _connect_server up to its first await: the transport object is created
\* (created = FALSE: the constructor raised) and initialize() is awaited
StartConnect(tk, c, created) ==
    LET counted == [tk EXCEPT !.nconn = tk.nconn + 1, !.cur = c.name, !.cfg = c] IN
    IF created THEN [counted EXCEPT !.pc = "init"]
    ELSE ConnectReturn(counted, FALSE)

\* _disconnect_server up to its await: nothing to do for a name not live
StartDisconnect(tk, name, then) ==
    IF name \in DOMAIN servers
    THEN [tk EXCEPT !.pc = "closing", !.cur = name, !.after = then]
    ELSE tk

\* _fetch_tools_from_server: every failure of the listing is swallowed and
\* gives the empty catalog
_fetch_tools_from_server(r) == RemoteCatalog(r)

\* _connect_server after both awaits succeeded (lines 138-147)
_connect_server(name, c, tools) ==
    [servers |-> Put(servers, name, c.type),
     server_configs |-> Put(server_configs, name, c),
     tool_cache |-> Put(tool_cache, name, tools),
     status |-> Put(status, name, ConnectedStatus(Len(tools)))]

\* Mutant: the except branch logs and forgets the status
_connect_except_silent(name) == status

\* _connect_server's except branch (lines 151-154): only the status is set
_connect_except(name) == Put(status, name, ErrorStatus(Reason))

\* Mutant: the connection is closed but stays in the live map
_disconnect_server_keeps_live(name, closeOutcome) ==
    [servers |-> servers,
     server_configs |-> Del(server_configs, name),
     tool_cache |-> Del(tool_cache, name)]

\* Mutant: the cached catalog is not dropped
_disconnect_server_keeps_cache(name, closeOutcome) ==
    [servers |-> Del(servers, name),
     server_configs |-> Del(server_configs, name),
     tool_cache |-> tool_cache]

\* Mutant: an exception of the close skips the bookkeeping
_disconnect_server_aborts_on_raise(name, closeOutcome) ==
    IF closeOutcome = "raise"
    THEN [servers |-> servers, server_configs |-> server_configs,
          tool_cache |-> tool_cache]
    ELSE [servers |-> Del(servers, name),
          server_configs |-> Del(server_configs, name),
          tool_cache |-> Del(tool_cache, name)]

\* _disconnect_server after its await (lines 203-208); closeOutcome "raise"
\* is the except branch, which only logs
_disconnect_server(name, closeOutcome) ==
    [servers |-> Del(servers, name),
     server_configs |-> Del(server_configs, name),
     tool_cache |-> Del(tool_cache, name)]

\* The names the connect loop may take next: reload iterates a set, in any
\* order; load_from_config iterates the enabled entries in file order
NextNames(tk) ==
    IF tk.op = "load"
    THEN {tk.snap[i].name : i \in {j \in DOMAIN tk.snap :
              /\ tk.snap[j].enabled /\ tk.snap[j].name \in tk.todo
              /\ \A k \in DOMAIN tk.snap :
                     (tk.snap[k].enabled /\ tk.snap[k].name \in tk.todo) => j <= k}}
    ELSE tk.todo

Reload(t) ==
    /\ Quiescent
    /\ task[t].pc = "idle"
    /\ LET config == load_config(file) IN
       /\ task' = [task EXCEPT ![t] =
                      [IdleTask EXCEPT !.pc = "disc", !.op = "reload",
                                       !.snap = config, !.todo = DOMAIN servers,
                                       !.repeat = (sinceReload = "same"),
                                       !.prevFail = prevFail]]
       /\ lastEnabled' = EnabledNames(config)
    /\ sinceReload' = "same"
    /\ prevFail' = {}
    /\ UNCHANGED <<file, servers, server_configs, tool_cache, status, rpc_servers,
                   rpc_bound, ret, prevFile>>

\* reload, lines 225-227: one iteration of the disconnect loop
DiscLoop(t) ==
    /\ task[t].pc = "disc"
    /\ LET tk == task[t] IN
       IF tk.todo = {}
       THEN task' = [task EXCEPT ![t] =
                        [tk EXCEPT !.pc = "conn", !.todo = EnabledNames(tk.snap)]]
       ELSE \E n \in tk.todo :
               LET rest == [tk EXCEPT !.todo = tk.todo \ {n}] IN
               task' = [task EXCEPT ![t] =
                           IF ShouldDisconnect(tk.snap, n)
                           THEN StartDisconnect(rest, n, "disc")
                           ELSE rest]
    /\ UNCHANGED <<file, servers, server_configs, tool_cache, status, rpc_servers,
                   rpc_bound, lastEnabled, sinceReload, prevFail, ret, prevFile>>

\* The await on aclose() returns or raises; then lines 206-208.  A name
\* that another coroutine removed meanwhile makes `del` raise KeyError.
CloseEnd(t, closeOutcome, created) ==
    /\ Quiescent
    /\ task[t].pc = "closing"
    /\ LET tk == task[t]
           n == tk.cur
           eff == _disconnect_server(n, closeOutcome)
           closed == [tk EXCEPT !.ndisc = tk.ndisc + 1]
       IN  IF n \in DOMAIN servers
           THEN /\ servers' = eff.servers
                /\ server_configs' = eff.server_configs
                /\ tool_cache' = eff.tool_cache
                /\ task' = [task EXCEPT ![t] =
                       IF tk.after = "disc" THEN [closed EXCEPT !.pc = "disc"]
                       ELSE IF tk.after = "reconnect"
                       THEN StartConnect(closed, tk.cfg, created)
                       ELSE [closed EXCEPT !.pc = "publish", !.result = "true"]]
                /\ status' = IF tk.after = "reconnect" /\ ~created
                             THEN _connect_except(n)
                             ELSE status
           ELSE /\ task' = [task EXCEPT ![t] =
                                [tk EXCEPT !.pc = "done", !.result = "raised"]]
                /\ UNCHANGED <<servers, server_configs, tool_cache, status>>
    /\ UNCHANGED <<file, rpc_servers, rpc_bound, lastEnabled, sinceReload,
                   prevFail, ret, prevFile>>

\* reload, lines 230-240, and load_from_config, lines 101-102: one iteration
ConnLoop(t, created) ==
    /\ task[t].pc = "conn"
    /\ LET tk == task[t] IN
       IF tk.todo = {}
       THEN /\ task' = [task EXCEPT ![t] = [tk EXCEPT !.pc = "publish"]]
            /\ UNCHANGED status
       ELSE \E n \in NextNames(tk) :
               LET rest == [tk EXCEPT !.todo = tk.todo \ {n}]
                   new_cfg == config_servers(tk.snap, n)
               IN  IF tk.op = "load" \/ n \notin DOMAIN servers
                   THEN /\ task' = [task EXCEPT ![t] = StartConnect(rest, new_cfg, created)]
                        /\ status' = IF created THEN status
                                     ELSE _connect_except(n)
                   ELSE /\ task' = [task EXCEPT ![t] =
                               IF /\ n \in DOMAIN server_configs
                                  /\ _config_changed(server_configs[n], new_cfg)
                               THEN [StartDisconnect(rest, n, "reconnect")
                                        EXCEPT !.cfg = new_cfg]
                               ELSE rest]
                        /\ UNCHANGED status
    /\ UNCHANGED <<file, servers, server_configs, tool_cache, rpc_servers,
                   rpc_bound, lastEnabled, sinceReload, prevFail, ret, prevFile>>

\* The await on server.initialize() returns or raises (lines 134, 151-154)
InitEnd(t, up) ==
    /\ Quiescent
    /\ task[t].pc = "init"
    /\ LET tk == task[t]
           n == tk.cur
       IN  IF ~up
           THEN /\ status' = _connect_except(n)
                /\ task' = [task EXCEPT ![t] = ConnectReturn(tk, FALSE)]
           ELSE /\ task' = [task EXCEPT ![t] = [tk EXCEPT !.pc = "fetch"]]
                /\ UNCHANGED status
    /\ UNCHANGED <<file, servers, server_configs, tool_cache, rpc_servers,
                   rpc_bound, lastEnabled, sinceReload, prevFail, ret, prevFile>>

\* The await on the catalog fetch returns (lines 137-149)
FetchEnd(t, answer) ==
    /\ Quiescent
    /\ task[t].pc = "fetch"
    /\ LET tk == [task[t] EXCEPT !.got = Put(task[t].got, task[t].cur, answer)]
           n == tk.cur
           eff == _connect_server(n, tk.cfg, _fetch_tools_from_server(answer))
       IN  /\ servers' = eff.servers
           /\ server_configs' = eff.server_configs
           /\ tool_cache' = eff.tool_cache
           /\ status' = eff.status
           /\ task' = [task EXCEPT ![t] = ConnectReturn(tk, TRUE)]
    /\ UNCHANGED <<file, rpc_servers, rpc_bound, lastEnabled, sinceReload,
                   prevFail, ret, prevFile>>

\* set_mcp_servers(self.servers); set_mcp_tool_cache(self._tool_cache)
Publish(t) ==
    /\ task[t].pc = "publish"
    /\ rpc_servers' = DOMAIN servers
    /\ rpc_bound' = TRUE
    /\ task' = [task EXCEPT ![t].pc = "done"]
    /\ UNCHANGED <<file, servers, server_configs, tool_cache, status,
                   lastEnabled, sinceReload, prevFail, ret, prevFile>>

\* The coroutine returns to its caller
Finish(t) ==
    /\ task[t].pc = "done"
    /\ prevFail' = IF task[t].op = "reload" /\ sinceReload = "same"
                   THEN task[t].failNames ELSE {}
    /\ task' = [task EXCEPT ![t] = IdleTask]
    /\ UNCHANGED <<file, servers, server_configs, tool_cache, status, rpc_servers,
                   rpc_bound, lastEnabled, sinceReload, ret, prevFile>>

LoadFromConfig(t) ==
    /\ Quiescent
    /\ task[t].pc = "idle"
    /\ LET config == load_config(file) IN
       /\ task' = [task EXCEPT ![t] =
                      [IdleTask EXCEPT !.pc = "conn", !.op = "load", !.snap = config,
                                       !.todo = EnabledNames(config)]]
       /\ lastEnabled' = EnabledNames(config)
    /\ sinceReload' = "no"
    /\ prevFail' = {}
    /\ UNCHANGED <<file, servers, server_configs, tool_cache, status, rpc_servers,
                   rpc_bound, ret, prevFile>>

\* MCPServerManager.add_server(config)
ManagerAdd(t, c, created) ==
    /\ Quiescent
    /\ task[t].pc = "idle"
    /\ LET tk == [IdleTask EXCEPT !.op = "add"] IN
       IF c.name \in DOMAIN servers
       THEN /\ task' = [task EXCEPT ![t] = [tk EXCEPT !.pc = "done", !.result = "false"]]
            /\ UNCHANGED status
       ELSE /\ task' = [task EXCEPT ![t] = StartConnect(tk, c, created)]
            /\ status' = IF created THEN status
                         ELSE _connect_except(c.name)
    /\ sinceReload' = "no"
    /\ prevFail' = {}
    /\ UNCHANGED <<file, servers, server_configs, tool_cache, rpc_servers,
                   rpc_bound, lastEnabled, ret, prevFile>>

\* MCPServerManager.remove_server(name)
ManagerRemove(t, name) ==
    /\ Quiescent
    /\ task[t].pc = "idle"
    /\ LET tk == [IdleTask EXCEPT !.op = "remove"] IN
       task' = [task EXCEPT ![t] =
                   IF name \notin DOMAIN servers
                   THEN [tk EXCEPT !.pc = "done", !.result = "false"]
                   ELSE StartDisconnect(tk, name, "finish")]
    /\ sinceReload' = "no"
    /\ prevFail' = {}
    /\ UNCHANGED <<file, servers, server_configs, tool_cache, status, rpc_servers,
                   rpc_bound, lastEnabled, ret, prevFile>>

(***************************************************************************)
(* Synchronous calls: the store functions and the RPC reads.  Each leaves  *)
(* its arguments and result in ret until Return.                           *)
(***************************************************************************)
NoRet == [op |-> "none", name |-> NoneV, cfg |-> NoCfg, ok |-> FALSE,
          msg |-> "", tools |-> <<>>]
NoFile == BrokenFile

\* rec: the call's arguments and result are observed (kept in ret)
Returned(rec, opname, name, c, r) ==
    /\ ret' = IF rec
              THEN [op |-> opname, name |-> name, cfg |-> c, ok |-> r.ok,
                    msg |-> r.msg, tools |-> <<>>]
              ELSE NoRet
    /\ prevFile' = IF rec THEN file ELSE NoFile
    /\ file' = r.file
    /\ sinceReload' = IF sinceReload = "same" /\ load_config(r.file) # load_config(file)
                      THEN "changed" ELSE sinceReload
    /\ prevFail' = IF sinceReload' = "same" THEN prevFail ELSE {}
    /\ UNCHANGED <<servers, server_configs, tool_cache, status, rpc_servers,
                   rpc_bound, task, lastEnabled>>

StoreAdd(rec, c, o) ==
    /\ Quiescent
    /\ Returned(rec, "add_server", c.name, c, add_server(file, c, o))

StoreRemove(rec, name, o) ==
    /\ Quiescent
    /\ Returned(rec, "remove_server", name, NoCfg, remove_server(file, name, o))

StoreToggle(rec, name, enabled, o) ==
    /\ Quiescent
    /\ Returned(rec, "toggle_server", name, NoCfg, toggle_server(file, name, enabled, o))

StoreAllowed(rec, name, allowed, o) ==
    /\ Quiescent
    /\ Returned(rec, "update_allowed_tools", name,
                [NoCfg EXCEPT !.allowed_tools = allowed],
                update_allowed_tools(file, name, allowed, o))

\* Mutant: the allow-list is tested for truth, so [] counts as no list
_list_mcp_tools_falsy(f, cache, name) ==
    IF ~HasServer(f, name) THEN [ok |-> FALSE, tools |-> <<>>]
    ELSE LET server_cfg == get_server(f, name)
             cached_tools == IF name \in DOMAIN cache THEN cache[name] ELSE <<>>
         IN  [ok |-> TRUE,
              tools |-> [i \in DOMAIN cached_tools |->
                  [name |-> cached_tools[i],
                   enabled |-> \/ server_cfg.allowed_tools.isNone
                               \/ server_cfg.allowed_tools.list = <<>>
                               \/ cached_tools[i] \in Range(server_cfg.allowed_tools.list)]]]

\* AgentRpcHandlers._list_mcp_tools: the reply for a server name
_list_mcp_tools(f, cache, name) ==
    IF ~HasServer(f, name) THEN [ok |-> FALSE, tools |-> <<>>]
    ELSE LET server_cfg == get_server(f, name)
             cached_tools == IF name \in DOMAIN cache THEN cache[name] ELSE <<>>
         IN  [ok |-> TRUE,
              tools |-> [i \in DOMAIN cached_tools |->
                  [name |-> cached_tools[i],
                   enabled |-> \/ server_cfg.allowed_tools.isNone
                               \/ cached_tools[i] \in Range(server_cfg.allowed_tools.list)]]]

\* AgentRpcHandlers._mcp_tool_cache: {} until set_mcp_tool_cache hands over
\* the manager's own dict
rpc_tool_cache == IF rpc_bound THEN tool_cache ELSE EmptyDict

ListTools(name) ==
    /\ Quiescent
    /\ LET r == _list_mcp_tools(file, rpc_tool_cache, name) IN
       ret' = [op |-> "list_mcp_tools", name |-> name, cfg |-> NoCfg, ok |-> r.ok,
               msg |-> "", tools |-> r.tools]
    /\ prevFile' = file
    /\ UNCHANGED <<file, servers, server_configs, tool_cache, status, rpc_servers,
                   rpc_bound, task, lastEnabled, sinceReload, prevFail>>

Return ==
    /\ ret.op # "none"
    /\ ret' = NoRet
    /\ prevFile' = NoFile
    /\ UNCHANGED <<file, servers, server_configs, tool_cache, status, rpc_servers,
                   rpc_bound, task, lastEnabled, sinceReload, prevFail>>

(***************************************************************************)
(* wake_word.py: the detector and the gated session.                       *)
(* Time is counted in ticks, audio in blocks of half a frame, confidence   *)
(* in tenths.  A step of a task takes no time; asyncio.sleep ends exactly  *)
(* when it is due.  The session is started once.                           *)
(***************************************************************************)
TicksPerSecond == 2
Horizon == 6
MaxPending == 2
MaxChunk == 3

\* FRAME_SIZE, in blocks of 640 samples
FRAME_SIZE == 2
\* DEFAULT_THRESHOLD, in tenths
DEFAULT_THRESHOLD == 5
Confidences == {DEFAULT_THRESHOLD - 1, DEFAULT_THRESHOLD, DEFAULT_THRESHOLD + 1}

\* asyncio.sleep(1.0) in _monitor_timeout
PollTicks == TicksPerSecond
Timeouts == {TicksPerSecond, TicksPerSecond + 1}
Cooldowns == {0, TicksPerSecond + 1}
\* time.time() is far from 0.0, the initial value of both timestamps
Epoch == CHOOSE m \in Timeouts \cup Cooldowns : \A x \in Timeouts \cup Cooldowns : x <= m
MaxTime == Epoch + Horizon

NoTask == [state |-> "none", wake |-> 0]

GateConstructed ==
    /\ running = FALSE
    /\ on_wake_word = "none"
    /\ threshold = DEFAULT_THRESHOLD
    /\ last_detection_time = 0
    /\ audio_buffer = 0
    /\ is_active = FALSE
    /\ last_activity_time = 0
    /\ timeout_task = NoTask
    /\ pending = 0
    /\ on_activate_calls = 0
    /\ on_deactivate_calls = 0
    /\ suppressed = FALSE
    /\ lapsed = FALSE
    /\ stopped = FALSE
    /\ raised = FALSE
    /\ orphans = 0

\* The gate left alone, as in the specifications of the manager
GateIdle ==
    /\ GateConstructed
    /\ now = Epoch
    /\ cooldown_seconds = 0
    /\ timeout_seconds = TicksPerSecond

\* The gate constructed with every cooldown and timeout
GateParams ==
    /\ GateConstructed
    /\ now = Epoch
    /\ cooldown_seconds \in Cooldowns
    /\ timeout_seconds \in Timeouts

\* WakeWordGatedSession.start: wraps the detector's callback and starts the
\* detector; loaded: the model could be loaded
GateStart(loaded) ==
    /\ on_wake_word = "none"
    /\ on_wake_word' = "gate"
    /\ running' = (running \/ loaded)
    /\ UNCHANGED <<now, threshold, cooldown_seconds, last_detection_time,
                   audio_buffer, timeout_seconds, is_active, last_activity_time,
                   timeout_task, pending, on_activate_calls, on_deactivate_calls,
                   suppressed, lapsed, stopped, raised, orphans>>

\* self._model.predict raises for the frame (no confidence is predicted)
PredictRaises == 0 - 1
\* The frames one call goes through at most (frames that an exception left
\* in the buffer add to the chunk)
MaxFrames == (MaxChunk + 1) \div FRAME_SIZE
Predictions == Confidences \cup {PredictRaises}

\* The while loop of process_audio over the frames 1..n of the buffer; conf[i]
\* is the confidence predicted for frame i, st the detector's state so far
\* and the frames taken from the buffer.  An exception of predict ends the
\* loop and the call.
RECURSIVE Frames(_, _, _, _)
Frames(i, n, conf, st) ==
    IF i > n THEN st
    ELSE IF conf[i] = PredictRaises
    THEN [st EXCEPT !.frames = i, !.raised = TRUE]
    ELSE IF conf[i] >= threshold
    THEN IF now - st.last >= cooldown_seconds
         THEN Frames(i + 1, n, conf,
                     [st EXCEPT !.frames = i,
                                !.last = now,
                                !.detected = TRUE,
                                \* the pair (label of frame i, confidence)
                                !.result = <<i, conf[i]>>,
                                !.notes = IF on_wake_word = "none" THEN st.notes
                                          ELSE Append(st.notes, <<i, conf[i]>>),
                                !.made = IF on_wake_word = "none" THEN st.made
                                         ELSE st.made + 1])
         ELSE Frames(i + 1, n, conf, [st EXCEPT !.frames = i, !.supp = TRUE])
    ELSE Frames(i + 1, n, conf, [st EXCEPT !.frames = i])

\* Mutant: the time of the last detection is not kept between calls
process_audio_forgets_last(blocks, conf) ==
    LET total == audio_buffer + blocks
        n == total \div FRAME_SIZE
        st == Frames(1, n, conf,
                     [last |-> 0, made |-> 0, supp |-> suppressed,
                      frames |-> 0, detected |-> FALSE, raised |-> FALSE,
                      result |-> <<>>, notes |-> <<>>])
    IN  [buffer |-> total - st.frames * FRAME_SIZE, st |-> st]

\* WakeWordDetector.process_audio for a chunk of `blocks` blocks
process_audio(blocks, conf) ==
    LET total == audio_buffer + blocks
        n == total \div FRAME_SIZE
        st == Frames(1, n, conf,
                     [last |-> last_detection_time, made |-> 0, supp |-> suppressed,
                      frames |-> 0, detected |-> FALSE, raised |-> FALSE,
                      result |-> <<>>, notes |-> <<>>])
    IN  [buffer |-> total - st.frames * FRAME_SIZE, st |-> st]

ProcessAudio(blocks, conf) ==
    /\ IF ~running
       THEN /\ raised' = FALSE
            /\ UNCHANGED <<audio_buffer, last_detection_time, pending, suppressed>>
       ELSE LET r == process_audio(blocks, conf) IN
            /\ (audio_buffer + blocks) \div FRAME_SIZE <= MaxFrames
            /\ pending + r.st.made <= MaxPending
            /\ audio_buffer' = r.buffer
            /\ last_detection_time' = r.st.last
            /\ pending' = pending + r.st.made
            /\ suppressed' = r.st.supp
            /\ raised' = r.st.raised
    /\ UNCHANGED <<now, running, on_wake_word, threshold, cooldown_seconds,
                   timeout_seconds, is_active, last_activity_time, timeout_task,
                   on_activate_calls, on_deactivate_calls, lapsed, stopped, orphans>>

\* A task the event loop still has to run: 1, else 0
Unfinished(tt) == IF tt.state \in {"created", "sleeping", "deactivating"} THEN 1 ELSE 0

\* Mutant: the handler activates without looking at _is_active
HandleWakeWord_unchecked ==
    /\ pending > 0
    /\ pending' = pending - 1
    /\ last_activity_time' = now
    /\ is_active' = TRUE
    /\ timeout_task' = [state |-> "created", wake |-> 0]
    /\ orphans' = orphans + Unfinished(timeout_task)
    /\ on_activate_calls' = on_activate_calls + 1
    /\ UNCHANGED <<now, running, on_wake_word, threshold, cooldown_seconds,
                   last_detection_time, audio_buffer, timeout_seconds,
                   on_deactivate_calls, suppressed, stopped, raised>>
    /\ lapsed' = FALSE

\* Mutant: a monitor is created by the first activation only
HandleWakeWord_first_monitor_only ==
    /\ pending > 0
    /\ pending' = pending - 1
    /\ last_activity_time' = now
    /\ IF is_active
       THEN UNCHANGED <<is_active, timeout_task, on_activate_calls, orphans>>
       ELSE /\ is_active' = TRUE
            /\ timeout_task' = IF timeout_task.state = "none"
                               THEN [state |-> "created", wake |-> 0]
                               ELSE timeout_task
            /\ UNCHANGED orphans
            /\ on_activate_calls' = on_activate_calls + 1
    /\ UNCHANGED <<now, running, on_wake_word, threshold, cooldown_seconds,
                   last_detection_time, audio_buffer, timeout_seconds,
                   on_deactivate_calls, suppressed, stopped, raised>>
    /\ lapsed' = (is_active /\ lapsed)

\* Mutant: an event in ACTIVE starts a monitor of its own
HandleWakeWord_restarts_monitor ==
    /\ pending > 0
    /\ pending' = pending - 1
    /\ last_activity_time' = now
    /\ is_active' = TRUE
    /\ timeout_task' = [state |-> "created", wake |-> 0]
    /\ orphans' = orphans + Unfinished(timeout_task)
    /\ on_activate_calls' = IF is_active THEN on_activate_calls
                            ELSE on_activate_calls + 1
    /\ UNCHANGED <<now, running, on_wake_word, threshold, cooldown_seconds,
                   last_detection_time, audio_buffer, timeout_seconds,
                   on_deactivate_calls, suppressed, stopped, raised>>
    /\ lapsed' = (is_active /\ lapsed)

\* A handler task runs: WakeWordGatedSession._handle_wake_word.  The task
\* that _timeout_task referred to goes on running when the attribute is
\* assigned a new task.
HandleWakeWord ==
    /\ pending > 0
    /\ pending' = pending - 1
    /\ last_activity_time' = now
    /\ IF is_active
       THEN UNCHANGED <<is_active, timeout_task, on_activate_calls, orphans>>
       ELSE /\ is_active' = TRUE
            /\ timeout_task' = [state |-> "created", wake |-> 0]
            /\ orphans' = orphans + Unfinished(timeout_task)
            /\ on_activate_calls' = on_activate_calls + 1
    /\ UNCHANGED <<now, running, on_wake_word, threshold, cooldown_seconds,
                   last_detection_time, audio_buffer, timeout_seconds,
                   on_deactivate_calls, suppressed, stopped, raised>>
    /\ lapsed' = (is_active /\ lapsed)

\* Mutant: the detector is not reset
_deactivate_without_reset ==
    IF ~is_active
    THEN [is_active |-> is_active, audio_buffer |-> audio_buffer,
          on_deactivate_calls |-> on_deactivate_calls, awaiting |-> FALSE]
    ELSE [is_active |-> FALSE, audio_buffer |-> audio_buffer,
          on_deactivate_calls |-> on_deactivate_calls + 1, awaiting |-> TRUE]

\* WakeWordGatedSession._deactivate up to its await, as the values it
\* leaves: _is_active cleared, the detector reset, on_deactivate invoked and
\* awaited
_deactivate ==
    IF ~is_active
    THEN [is_active |-> is_active, audio_buffer |-> audio_buffer,
          on_deactivate_calls |-> on_deactivate_calls, awaiting |-> FALSE]
    ELSE [is_active |-> FALSE, audio_buffer |-> 0,
          on_deactivate_calls |-> on_deactivate_calls + 1, awaiting |-> TRUE]

\* The head of the loop of _monitor_timeout: sleep, or leave the loop
MonitorLoop(active) ==
    IF active THEN [state |-> "sleeping", wake |-> now + PollTicks]
    ELSE [state |-> "done", wake |-> 0]

\* _monitor_timeout starts running
MonitorStart ==
    /\ timeout_task.state = "created"
    /\ timeout_task' = MonitorLoop(is_active)
    /\ UNCHANGED <<now, running, on_wake_word, threshold, cooldown_seconds,
                   last_detection_time, audio_buffer, timeout_seconds, is_active,
                   last_activity_time, pending, on_activate_calls,
                   on_deactivate_calls, suppressed, lapsed, stopped, raised, orphans>>

\* Mutant: the limit is the poll interval, not timeout_seconds
TimedOut_after_poll_interval == now - last_activity_time >= PollTicks

\* Mutant: the timeout is compared with the time since the last poll
TimedOut_since_poll == PollTicks >= timeout_seconds

\* _monitor_timeout, line 308-309: elapsed >= timeout_seconds
TimedOut == now - last_activity_time >= timeout_seconds

\* _monitor_timeout wakes from its sleep
MonitorPoll ==
    /\ timeout_task.state = "sleeping"
    /\ timeout_task.wake = now
    /\ IF TimedOut
       THEN /\ is_active' = _deactivate.is_active
            /\ audio_buffer' = _deactivate.audio_buffer
            /\ on_deactivate_calls' = _deactivate.on_deactivate_calls
            /\ timeout_task' = IF _deactivate.awaiting
                               THEN [state |-> "deactivating", wake |-> 0]
                               ELSE [state |-> "done", wake |-> 0]
       ELSE /\ timeout_task' = MonitorLoop(is_active)
            /\ UNCHANGED <<is_active, audio_buffer, on_deactivate_calls>>
    /\ UNCHANGED <<now, running, on_wake_word, threshold, cooldown_seconds,
                   last_detection_time, timeout_seconds, last_activity_time,
                   pending, on_activate_calls, suppressed, lapsed, stopped, raised, orphans>>

\* on_deactivate returns to _deactivate, which returns to the monitor,
\* which leaves its loop (line 311)
DeactivateEnd ==
    /\ timeout_task.state = "deactivating"
    /\ timeout_task' = [state |-> "done", wake |-> 0]
    /\ UNCHANGED <<now, running, on_wake_word, threshold, cooldown_seconds,
                   last_detection_time, audio_buffer, timeout_seconds, is_active,
                   last_activity_time, pending, on_activate_calls,
                   on_deactivate_calls, suppressed, lapsed, stopped, raised, orphans>>

\* The same for a monitor that _timeout_task no longer refers to
OrphanEnd ==
    /\ orphans > 0
    /\ orphans' = orphans - 1
    /\ UNCHANGED <<now, running, on_wake_word, threshold, cooldown_seconds,
                   last_detection_time, audio_buffer, timeout_seconds, is_active,
                   last_activity_time, timeout_task, pending, on_activate_calls,
                   on_deactivate_calls, suppressed, lapsed, stopped, raised>>

\* WakeWordGatedSession.refresh_activity
RefreshActivity ==
    /\ last_activity_time' = now
    /\ UNCHANGED <<now, running, on_wake_word, threshold, cooldown_seconds,
                   last_detection_time, audio_buffer, timeout_seconds, is_active,
                   timeout_task, pending, on_activate_calls, on_deactivate_calls,
                   suppressed, lapsed, stopped, raised, orphans>>

\* WakeWordGatedSession.stop: cancels the monitor and stops the detector
GateStop ==
    /\ on_wake_word = "gate"
    /\ timeout_task' = IF timeout_task.state \in {"created", "sleeping", "deactivating"}
                       THEN [state |-> "cancelled", wake |-> 0]
                       ELSE timeout_task
    /\ running' = FALSE
    /\ audio_buffer' = 0
    /\ stopped' = TRUE
    /\ UNCHANGED <<now, on_wake_word, threshold, cooldown_seconds,
                   last_detection_time, timeout_seconds, is_active,
                   last_activity_time, pending, on_activate_calls,
                   on_deactivate_calls, suppressed, lapsed, raised, orphans>>

\* Time passes, unless the monitor is due
Tick ==
    /\ now < MaxTime
    /\ timeout_task.state # "created"
    /\ ~(timeout_task.state = "sleeping" /\ timeout_task.wake = now)
    /\ now' = now + 1
    /\ UNCHANGED <<running, on_wake_word, threshold, cooldown_seconds,
                   last_detection_time, audio_buffer, timeout_seconds, is_active,
                   last_activity_time, timeout_task, pending, on_activate_calls,
                   on_deactivate_calls, suppressed, stopped, raised, orphans>>
    /\ lapsed' = (lapsed \/ (is_active /\ now' - last_activity_time >= timeout_seconds))

(***************************************************************************)
(* Specification of the manager with its operations serialized: a manager  *)
(* operation starts only when none is in flight; store calls, reads and    *)
(* the environment run at every suspension point.                          *)
(***************************************************************************)
AddInputs ==
    {MCPServerConfig(n, ty, u, NoneV, c, NoneV, NoneV, NoneV, en, NoneTools) :
        n \in Names, ty \in Types, u \in URLs \cup {NoneV},
        c \in Commands \cup {NoneV}, en \in BOOLEAN}
ValidInputs ==
    {c \in AddInputs : /\ validate_type_fields(c)
                       /\ c.type = "http" => c.command = NoneV
                       /\ c.type = "stdio" => c.url = NoneV}
\* The manager specification configures one endpoint of each transport kind
MgrInputs == {c \in ValidInputs : c.url \in {NoneV, "u1"}}
AllowedInputs == {NoneTools, SomeTools(<<>>), SomeTools(<<"t1">>)}
ManagerAddInputs ==
    {MCPServerConfig(n, "http", "u1", NoneV, NoneV, NoneV, NoneV, NoneV, TRUE, NoneTools) :
        n \in Names}
    \cup
    {MCPServerConfig(n, "stdio", NoneV, NoneV, "c1", NoneV, NoneV, NoneV, TRUE, NoneTools) :
        n \in Names}

MgrInit ==
    /\ file = FileOf(<<>>)
    /\ servers = EmptyDict
    /\ server_configs = EmptyDict
    /\ tool_cache = EmptyDict
    /\ status = EmptyDict
    /\ rpc_servers = {}
    /\ rpc_bound = FALSE
    /\ task = [t \in Tasks |-> IdleTask]
    /\ lastEnabled = {}
    /\ sinceReload = "no"
    /\ prevFail = {}
    /\ ret = NoRet
    /\ prevFile = NoFile

\* What the Control Surface reads: the handlers' server list, the status
\* records and the tool cache (rpc_handlers.py: _mcp_servers,
\* _mcp_server_status, _mcp_tool_cache)
Observation == [servers |-> rpc_servers, status |-> status, tool_cache |-> rpc_tool_cache]
NoObs == [pre |-> [servers |-> {}, status |-> EmptyDict, tool_cache |-> EmptyDict], mids |-> {}]

\* In memory: live, the status records, the tool cache, the handlers' server
\* list and the running passes
Memory == [servers |-> servers, server_configs |-> server_configs, status |-> status,
           tool_cache |-> tool_cache, rpc_servers |-> rpc_servers, task |-> task]
NoFetch == [pc |-> "idle"]
NoDet == [op |-> "none", was_running |-> FALSE, before |-> 0,
          blocks |-> 0, conf |-> <<>>, last |-> 0, frames |-> 0, result |-> <<>>,
          notes |-> <<>>, raised |-> FALSE]
NoRpc == [op |-> "none", name |-> NoneV, ok |-> FALSE, stored |-> FALSE,
          notified |-> 0]

Init ==
    /\ MgrInit
    /\ phase = 0
    /\ GateIdle
    /\ observed = NoObs
    /\ rpc = NoRpc
    /\ fetch = NoFetch
    /\ det = NoDet
    /\ wake_word_state = "disabled"

\* The round trip, the gate and the reader are left alone
Aside == UNCHANGED <<phase, gateVars, observed, rpc, fetch, det, wake_word_state>>

Next ==
    \/ \E c \in MgrInputs : AllIdle /\ StoreAdd(FALSE, c, "ok") /\ Aside
    \/ \E n \in Names : AllIdle /\ StoreRemove(FALSE, n, "ok") /\ Aside
    \/ \E n \in Names, e \in {"toggle", "on", "off"} :
          AllIdle /\ StoreToggle(FALSE, n, e, "ok") /\ Aside
    \/ AllIdle /\ Reload("t1") /\ Aside
    \/ AllIdle /\ LoadFromConfig("t1") /\ Aside
    \/ \E c \in ManagerAddInputs, created \in BOOLEAN :
          AllIdle /\ ManagerAdd("t1", c, created) /\ Aside
    \/ \E n \in Names : AllIdle /\ ManagerRemove("t1", n) /\ Aside
    \/ DiscLoop("t1") /\ Aside
    \/ \E created \in BOOLEAN : ConnLoop("t1", created) /\ Aside
    \/ \E o \in {"ok", "raise"}, created \in BOOLEAN :
          CloseEnd("t1", o, created) /\ Aside
    \/ \E up \in BOOLEAN : InitEnd("t1", up) /\ Aside
    \/ \E a \in {"nolist", "one"} : FetchEnd("t1", a) /\ Aside
    \/ Publish("t1") /\ Aside
    \/ Finish("t1") /\ Aside

Spec == Init /\ [][Next]_vars

(***************************************************************************)
(* Properties of the manager                                               *)
(***************************************************************************)
Lookup(d, k) == IF k \in DOMAIN d THEN <<d[k]>> ELSE <<>>
ReloadDone(t) == task[t].pc = "done" /\ task[t].op = "reload"
Attempted(t) == task[t].okNames \cup task[t].failNames

\* C1 as stated: a reload that follows a completed reload, with the file
\* unchanged in between, makes no connect attempt and no disconnect.
C1_Original ==
    \A t \in Tasks :
        (ReloadDone(t) /\ task[t].repeat) => task[t].nconn = 0 /\ task[t].ndisc = 0

\* C1 (amended): such a second reload disconnects nothing and attempts a
\* connect only for the names whose connect failed in the first reload.
C1_IdempotentReload ==
    \A t \in Tasks :
        (ReloadDone(t) /\ task[t].repeat) =>
            /\ task[t].ndisc = 0
            /\ Attempted(t) \subseteq task[t].prevFail
            /\ task[t].nconn = Cardinality(Attempted(t))

C1_Witness ==
    \E t \in Tasks :
        /\ ReloadDone(t) /\ task[t].repeat
        /\ task[t].prevFail = {}
        /\ DOMAIN servers # {}
        /\ task[t].nconn = 0

\* The steps in which a connect fails before anything is stored (transport
\* creation or initialize), and in which the catalog listing fails
ConnectRaised(t) == task'[t].failNames \ task[t].failNames
ListingFailed(t) ==
    /\ task[t].pc = "fetch" /\ task'[t].pc # "fetch"
    /\ task'[t].got[task[t].cur] = "nolist"
ConnectStep(t) == task[t].pc \in {"conn", "init", "fetch"}

SameFor(b) ==
    /\ Lookup(servers', b) = Lookup(servers, b)
    /\ Lookup(server_configs', b) = Lookup(server_configs, b)
    /\ Lookup(tool_cache', b) = Lookup(tool_cache, b)
    /\ Lookup(status', b) = Lookup(status, b)

OnlyStatusOf(a) ==
    /\ servers' = servers
    /\ server_configs' = server_configs
    /\ tool_cache' = tool_cache
    /\ \A b \in Names \ {a} : Lookup(status', b) = Lookup(status, b)

\* When a reload ends, every enabled name of its snapshot whose connect did
\* not fail is live, with status connected if this pass connected it
OthersConnected(t) ==
    (task'[t].pc = "done" /\ task'[t].op = "reload") =>
        \A b \in EnabledNames(task'[t].snap) \ task'[t].failNames :
            /\ b \in DOMAIN servers'
            /\ b \in task'[t].okNames =>
                   Lookup(status', b) # <<>> /\ status'[b].status = "connected"

\* C2 as stated: a failure of A at transport creation, initialize or catalog
\* fetch changes only A's status entry, and B is live with status connected
\* when the pass ends.
C2_Original ==
    [][\A t \in Tasks :
          /\ (ConnectStep(t) /\ task[t].op = "reload") =>
                 \A a \in ConnectRaised(t) \cup
                           (IF ListingFailed(t) THEN {task[t].cur} ELSE {}) :
                     OnlyStatusOf(a)
          /\ OthersConnected(t)]_vars

\* C2 (amended): a failure of A at transport creation or initialize changes
\* only A's status entry; a failed catalog fetch makes A live with an empty
\* catalog and changes no entry of another name; in both cases every other
\* enabled name whose connect steps succeed is live with status connected
\* when the pass ends.
C2_Isolation ==
    [][\A t \in Tasks :
          /\ \A a \in ConnectRaised(t) :
                 /\ \A b \in Names \ {a} : SameFor(b)
                 /\ ConnectStep(t) => OnlyStatusOf(a)
          /\ ListingFailed(t) =>
                 /\ \A b \in Names \ {task[t].cur} : SameFor(b)
                 /\ task[t].cur \in DOMAIN servers'
          /\ OthersConnected(t)]_vars

C2_Witness ==
    \E t \in Tasks :
        /\ ReloadDone(t)
        /\ task[t].failNames # {}
        /\ task[t].okNames # {}
        /\ task[t].okNames \subseteq DOMAIN servers
        /\ \E m \in DOMAIN task[t].got \cap DOMAIN servers : task[t].got[m] = "nolist"

\* C3 as stated: at every point in time the live names are enabled names of
\* the snapshot the manager loaded last.
C3_Original == DOMAIN servers \subseteq lastEnabled

\* C3 (amended): when a reload ends, and from then until the next manager
\* operation begins, the live names are enabled names of the snapshot that
\* reload loaded.
C3_LiveSubsetAfterReload ==
    /\ \A t \in Tasks : ReloadDone(t) => DOMAIN servers \subseteq lastEnabled
    /\ (AllIdle /\ sinceReload # "no") => DOMAIN servers \subseteq lastEnabled

C3_Witness ==
    /\ AllIdle
    /\ sinceReload = "changed"
    /\ DOMAIN servers # {}
    /\ DOMAIN servers # lastEnabled
    /\ DOMAIN servers # EnabledNames(load_config(file))

\* C4: when a reload ends in which no connect failed, the live names and the
\* names of the tool cache are exactly the enabled names of its snapshot.
C4_Convergence ==
    \A t \in Tasks :
        (ReloadDone(t) /\ task[t].failNames = {}) =>
            /\ DOMAIN servers = EnabledNames(task[t].snap)
            /\ DOMAIN tool_cache = EnabledNames(task[t].snap)

C4_Witness ==
    \E t \in Tasks :
        /\ ReloadDone(t) /\ task[t].failNames = {}
        /\ task[t].nconn > 0 /\ task[t].ndisc > 0
        /\ DOMAIN servers # {}

\* C5 as stated: after a failure of any of the three connect steps the name
\* is absent from live and from the tool cache and its status is error.
C5_Original ==
    [][\A t \in Tasks :
          \A n \in ConnectRaised(t) \cup (IF ListingFailed(t) THEN {task[t].cur} ELSE {}) :
              /\ n \notin DOMAIN servers'
              /\ n \notin DOMAIN tool_cache'
              /\ Lookup(status', n) = <<ErrorStatus(Reason)>>]_vars

\* C5 (amended): a failure of transport creation or initialize stores
\* nothing (in reload and add_server, where the name was not live, it stays
\* absent from live and the tool cache) and sets status error; a failed
\* catalog listing is no connect failure: the name becomes live with an
\* empty cached catalog and status connected with tool_count 0.
C5_ConnectFailure ==
    [][\A t \in Tasks :
          /\ \A n \in ConnectRaised(t) :
                 /\ DOMAIN servers' \subseteq DOMAIN servers
                 /\ Lookup(tool_cache', n) \in {Lookup(tool_cache, n), <<>>}
                 /\ task[t].op \in {"reload", "add"} =>
                        n \notin DOMAIN servers' /\ n \notin DOMAIN tool_cache'
                 /\ Lookup(status', n) = <<ErrorStatus(Reason)>>
          /\ ListingFailed(t) =>
                 /\ task[t].cur \in DOMAIN servers'
                 /\ Lookup(tool_cache', task[t].cur) = << <<>> >>
                 /\ Lookup(status', task[t].cur) = <<ConnectedStatus(0)>>]_vars

C5_Witness ==
    \E t \in Tasks : \E n \in task[t].failNames :
        /\ task[t].op = "reload"
        /\ n \notin DOMAIN servers
        /\ Lookup(status, n) = <<ErrorStatus(Reason)>>
        /\ \E m \in DOMAIN task[t].got :
               task[t].got[m] = "nolist" /\ Lookup(status, m) = <<ConnectedStatus(0)>>

(***************************************************************************)
(* The disable / enable round trip of server "A".  phase counts the calls  *)
(* of the trip that have been made: load_from_config at startup, toggle    *)
(* off, reload, toggle on, reload.                                         *)
(***************************************************************************)
TripServer == "A"

TripFiles ==
    LET as == {c \in MgrInputs : c.name = TripServer /\ c.enabled}
        bs == {c \in ValidInputs : c.name # TripServer}
        \* add_server never stores two http entries with one url
        apart(a, b) == a.url = NoneV \/ a.url # b.url
        pairs == {p \in as \X bs : apart(p[1], p[2])}
    IN  {FileOf(<<a>>) : a \in as}
        \cup {FileOf(<<p[1], p[2]>>) : p \in pairs}
        \cup {FileOf(<<p[2], p[1]>>) : p \in pairs}

TripInit ==
    /\ file \in TripFiles
    /\ servers = EmptyDict
    /\ server_configs = EmptyDict
    /\ tool_cache = EmptyDict
    /\ status = EmptyDict
    /\ rpc_servers = {}
    /\ rpc_bound = FALSE
    /\ task = [t \in Tasks |-> IdleTask]
    /\ lastEnabled = {}
    /\ sinceReload = "no"
    /\ prevFail = {}
    /\ ret = NoRet
    /\ prevFile = NoFile
    /\ phase = 0
    /\ GateIdle
    /\ observed = NoObs
    /\ rpc = NoRpc
    /\ fetch = NoFetch
    /\ det = NoDet
    /\ wake_word_state = "disabled"

TripConnected ==
    /\ TripServer \in DOMAIN servers
    /\ TripServer \in DOMAIN status
    /\ status[TripServer].status = "connected"

TripNext ==
    \/ phase = 0 /\ LoadFromConfig("t1") /\ phase' = 1 /\ UNCHANGED <<gateVars, observed, rpc, fetch, det, wake_word_state>>
    \/ \E e \in {"toggle", "off"} :
          /\ phase = 1 /\ AllIdle /\ TripConnected
          /\ StoreToggle(FALSE, TripServer, e, "ok")
          /\ phase' = 2
          /\ UNCHANGED <<gateVars, observed, rpc, fetch, det, wake_word_state>>
    \/ phase = 2 /\ Reload("t1") /\ phase' = 3 /\ UNCHANGED <<gateVars, observed, rpc, fetch, det, wake_word_state>>
    \/ \E e \in {"toggle", "on"} :
          /\ phase = 3 /\ AllIdle
          /\ StoreToggle(FALSE, TripServer, e, "ok")
          /\ phase' = 4
          /\ UNCHANGED <<gateVars, observed, rpc, fetch, det, wake_word_state>>
    \/ phase = 4 /\ Reload("t1") /\ phase' = 5 /\ UNCHANGED <<gateVars, observed, rpc, fetch, det, wake_word_state>>
    \/ DiscLoop("t1") /\ Aside
    \/ \E created \in BOOLEAN : ConnLoop("t1", created) /\ Aside
    \/ \E o \in {"ok", "raise"} : CloseEnd("t1", o, TRUE) /\ Aside
    \/ \E up \in BOOLEAN : InitEnd("t1", up) /\ Aside
    \/ \E a \in ListAnswers : FetchEnd("t1", a) /\ Aside
    \/ Publish("t1") /\ Aside
    \/ Finish("t1") /\ Aside

SpecTrip == TripInit /\ [][TripNext]_vars

TripOff(t) == phase = 3 /\ ReloadDone(t)
TripBack(t) == phase = 5 /\ ReloadDone(t)
TripAbsent == TripServer \notin DOMAIN servers /\ TripServer \notin DOMAIN tool_cache
TripFresh(t) ==
    /\ TripConnected
    /\ TripServer \in DOMAIN task[t].got
    /\ Lookup(tool_cache, TripServer) = <<RemoteCatalog(task[t].got[TripServer])>>
    /\ rpc_tool_cache = tool_cache

\* C6 as stated: after toggle off and reload the server is absent from live
\* and the tool cache; after toggle on and reload it is live with status
\* connected and its cached catalog is the one the server returns then.
C6_Original ==
    \A t \in Tasks :
        /\ TripOff(t) => TripAbsent
        /\ TripBack(t) => TripFresh(t)

\* C6 (amended): after toggle off and reload the server is absent from live
\* and the tool cache; after toggle on and reload, if the transport was
\* created and initialized, it is live with status connected and its cached
\* catalog is the one fetched in that reconnect (empty if the fetch failed);
\* otherwise it is absent from live and the tool cache with status error.
C6_RoundTrip ==
    \A t \in Tasks :
        /\ TripOff(t) => TripAbsent
        /\ (TripBack(t) /\ TripServer \notin task[t].failNames) => TripFresh(t)
        /\ (TripBack(t) /\ TripServer \in task[t].failNames) =>
               TripAbsent /\ Lookup(status, TripServer) = <<ErrorStatus(Reason)>>

C6_Witness ==
    \E t \in Tasks :
        /\ TripBack(t)
        /\ TripServer \in task[t].okNames
        /\ tool_cache[TripServer] = <<"t1", "t2">>


(***************************************************************************)
(* The store alone: every call of mcp_config with every argument, valid or *)
(* not, and every outcome of the write; each call's result is observed     *)
(* before the next call.                                                   *)
(***************************************************************************)
StoreNext ==
    \/ \E c \in AddInputs, o \in SaveOutcomes : StoreAdd(TRUE, c, o) /\ Aside
    \/ \E n \in Names, o \in SaveOutcomes : StoreRemove(TRUE, n, o) /\ Aside
    \/ \E n \in Names, e \in {"toggle", "on", "off"}, o \in SaveOutcomes :
          StoreToggle(TRUE, n, e, o) /\ Aside
    \/ \E n \in Names, a \in AllowedInputs, o \in SaveOutcomes :
          StoreAllowed(TRUE, n, a, o) /\ Aside
    \/ Return /\ Aside

SpecStore == Init /\ [][StoreNext]_vars

\* What makes an add invalid, judged against the store before the call
NameTaken(old, c) == \E i \in DOMAIN old : old[i].name = c.name
UrlTaken(old, c) ==
    c.type = "http" /\ c.url # NoneV /\ \E i \in DOMAIN old : old[i].url = c.url
LacksField(c) ==
    \/ c.type = "http" /\ c.url = NoneV
    \/ c.type = "stdio" /\ c.command = NoneV

\* C7: an add whose name is already stored, or (http) whose url is the url
\* of a stored entry, or that lacks the field its transport requires,
\* returns failure with a message and leaves the file exactly as it was.
C7_AddRejects ==
    ret.op = "add_server" =>
        LET old == load_config(prevFile) IN
        (NameTaken(old, ret.cfg) \/ UrlTaken(old, ret.cfg) \/ LacksField(ret.cfg)) =>
            /\ ~ret.ok
            /\ ret.msg # ""
            /\ file = prevFile

C7_Witness ==
    /\ ret.op = "add_server"
    /\ Len(load_config(prevFile)) = 1
    /\ ~NameTaken(load_config(prevFile), ret.cfg)
    /\ UrlTaken(load_config(prevFile), ret.cfg)
    /\ ~ret.ok
    /\ file = prevFile


(***************************************************************************)
(* list_mcp_tools read at every point between the manager's steps, over    *)
(* stores whose entries carry every kind of allow-list and servers that    *)
(* answer with every catalog.  Entries are added and connected, never      *)
(* removed: what is read is the cache, however it came about.              *)
(***************************************************************************)
ToolsNext ==
    \/ \E c \in {x \in MgrInputs : x.enabled} :
          AllIdle /\ StoreAdd(FALSE, c, "ok") /\ Aside
    \/ \E n \in Names, a \in AllowedInputs : StoreAllowed(FALSE, n, a, "ok") /\ Aside
    \/ AllIdle /\ Reload("t1") /\ Aside
    \/ DiscLoop("t1") /\ Aside
    \/ ConnLoop("t1", TRUE) /\ Aside
    \/ InitEnd("t1", TRUE) /\ Aside
    \/ \E a \in ListAnswers : FetchEnd("t1", a) /\ Aside
    \/ Publish("t1") /\ Aside
    \/ Finish("t1") /\ Aside
    \/ \E n \in Names : ListTools(n) /\ Aside
    \/ Return /\ Aside

SpecTools == Init /\ [][ToolsNext]_vars

ListedFor(name) == ret.op = "list_mcp_tools" /\ ret.name = name /\ ret.ok
CachedCatalog(name) == IF name \in DOMAIN rpc_tool_cache THEN rpc_tool_cache[name] ELSE <<>>

\* C8: the reply of list_tools(name) lists exactly the cached catalog of the
\* server, in order; with allowed_tools null every tool is enabled, with []
\* none is, and with a non-empty list a tool is enabled exactly when its
\* name is in the list.
C8_AllowList ==
    \A n \in Names :
        ListedFor(n) =>
            LET allowed == get_server(file, n).allowed_tools
                cat == CachedCatalog(n)
            IN  /\ Len(ret.tools) = Len(cat)
                /\ \A i \in DOMAIN cat :
                       /\ ret.tools[i].name = cat[i]
                       /\ allowed.isNone => ret.tools[i].enabled
                       /\ (~allowed.isNone /\ allowed.list = <<>>) => ~ret.tools[i].enabled
                       /\ (~allowed.isNone /\ allowed.list # <<>>) =>
                              (ret.tools[i].enabled <=>
                                   \E j \in DOMAIN allowed.list : allowed.list[j] = cat[i])

C8_Witness ==
    \E n \in Names :
        /\ ListedFor(n)
        /\ get_server(file, n).allowed_tools = SomeTools(<<"t1">>)
        /\ ret.tools = <<[name |-> "t1", enabled |-> TRUE], [name |-> "t2", enabled |-> FALSE]>>

(***************************************************************************)
(* The gated session with its detector: audio arrives in chunks of every   *)
(* size with every prediction, handler tasks run when the loop gets to     *)
(* them, activity is refreshed and the session stopped at any moment.      *)
(***************************************************************************)
GateNext ==
    \/ \E loaded \in BOOLEAN : GateStart(loaded) /\ UNCHANGED <<mgrVars, phase, observed, rpc, fetch, det, wake_word_state>>
    \/ \E blocks \in 1..MaxChunk :
       \E conf \in [1..((audio_buffer + blocks) \div FRAME_SIZE) -> Predictions] :
          ProcessAudio(blocks, conf) /\ UNCHANGED <<mgrVars, phase, observed, rpc, fetch, det, wake_word_state>>
    \/ HandleWakeWord /\ UNCHANGED <<mgrVars, phase, observed, rpc, fetch, det, wake_word_state>>
    \/ MonitorStart /\ UNCHANGED <<mgrVars, phase, observed, rpc, fetch, det, wake_word_state>>
    \/ MonitorPoll /\ UNCHANGED <<mgrVars, phase, observed, rpc, fetch, det, wake_word_state>>
    \/ DeactivateEnd /\ UNCHANGED <<mgrVars, phase, observed, rpc, fetch, det, wake_word_state>>
    \/ OrphanEnd /\ UNCHANGED <<mgrVars, phase, observed, rpc, fetch, det, wake_word_state>>
    \/ RefreshActivity /\ UNCHANGED <<mgrVars, phase, observed, rpc, fetch, det, wake_word_state>>
    \/ GateStop /\ UNCHANGED <<mgrVars, phase, observed, rpc, fetch, det, wake_word_state>>
    \/ Tick /\ UNCHANGED <<mgrVars, phase, observed, rpc, fetch, det, wake_word_state>>

GateInit ==
    /\ MgrInit
    /\ phase = 0
    /\ GateParams
    /\ observed = NoObs
    /\ rpc = NoRpc
    /\ fetch = NoFetch
    /\ det = NoDet
    /\ wake_word_state = "disabled"

SpecGate == GateInit /\ [][GateNext]_vars


MonitorAlive(tt) == tt.state \in {"created", "sleeping"}

\* C9: on_activate is invoked exactly when the gate goes from LISTENING to
\* ACTIVE, once per transition; every handler task that runs leaves the gate
\* ACTIVE; and while the gate stays ACTIVE no further qualifying frame,
\* inside or outside the cooldown window, causes a second invocation.
C9_ActivatesOnce ==
    [][/\ (on_activate_calls' # on_activate_calls) <=> (~is_active /\ is_active')
       /\ on_activate_calls' \in {on_activate_calls, on_activate_calls + 1}
       /\ pending' < pending => is_active'
       /\ on_activate_calls' = on_deactivate_calls' + (IF is_active' THEN 1 ELSE 0)]_vars

C9_Witness ==
    /\ is_active
    /\ on_activate_calls = 1
    /\ on_deactivate_calls = 0
    /\ cooldown_seconds > 0
    /\ suppressed
    /\ now - last_detection_time >= cooldown_seconds
    /\ pending = 0

\* C10: the gate leaves ACTIVE only by a timeout, at which on_deactivate is
\* invoked once, and never before timeout_seconds have passed since the
\* last activity; while the monitor is alive the gate is never ACTIVE as
\* late as one poll interval after that threshold; the monitor of an ACTIVE
\* gate is alive unless stop() cancelled it.
C10_Timeout ==
    [][/\ (is_active /\ ~is_active') <=> (on_deactivate_calls' # on_deactivate_calls)
       /\ on_deactivate_calls' \in {on_deactivate_calls, on_deactivate_calls + 1}
       /\ (is_active /\ ~is_active') =>
              /\ now - last_activity_time >= timeout_seconds
              /\ now - last_activity_time < timeout_seconds + PollTicks
       /\ (is_active' /\ MonitorAlive(timeout_task')) =>
              now' < last_activity_time' + timeout_seconds + PollTicks
       /\ (is_active' /\ ~MonitorAlive(timeout_task')) =>
              timeout_task'.state = "cancelled"]_vars

C10_Witness ==
    /\ ~is_active
    /\ on_deactivate_calls = 1
    /\ timeout_task.state = "done"
    /\ timeout_seconds > PollTicks
    /\ now - last_activity_time = timeout_seconds + PollTicks - 1
    /\ running


\* C11: as long as no timeout_seconds have passed without a refresh since the
\* gate went ACTIVE (every refresh_activity call or wake-word event came
\* less than timeout_seconds after the one before), the gate is ACTIVE and
\* on_deactivate has not been invoked for this activation.
C11_RefreshKeepsActive ==
    (on_activate_calls > 0 /\ ~lapsed) =>
        /\ is_active
        /\ on_deactivate_calls = on_activate_calls - 1

C11_Witness ==
    /\ is_active
    /\ ~lapsed
    /\ MonitorAlive(timeout_task)
    /\ on_activate_calls = 1
    /\ now - last_activity_time < timeout_seconds
    /\ now = MaxTime


(***************************************************************************)
(* Two configuration-change notifications: each runs reload() in a task of *)
(* its own, nothing serializes them (agent.py, on_mcp_change), so the two  *)
(* passes interleave at their awaits.  The store holds one or two servers  *)
(* and entries are toggled between the passes' steps.                      *)
(***************************************************************************)
ConcFiles ==
    LET a == MCPServerConfig("A", "http", "u1", NoneV, NoneV, NoneV, NoneV, NoneV,
                             TRUE, NoneTools)
        b == MCPServerConfig("B", "stdio", NoneV, NoneV, "c1", NoneV, NoneV, NoneV,
                             TRUE, NoneTools)
    IN  {FileOf(<<a>>), FileOf(<<a, b>>)}

ConcInit ==
    /\ file \in ConcFiles
    /\ servers = EmptyDict
    /\ server_configs = EmptyDict
    /\ tool_cache = EmptyDict
    /\ status = EmptyDict
    /\ rpc_servers = {}
    /\ rpc_bound = FALSE
    /\ task = [t \in Tasks |-> IdleTask]
    /\ lastEnabled = {}
    /\ sinceReload = "no"
    /\ prevFail = {}
    /\ ret = NoRet
    /\ prevFile = NoFile
    /\ phase = 0
    /\ GateIdle
    /\ observed = NoObs
    /\ rpc = NoRpc
    /\ fetch = NoFetch
    /\ det = NoDet
    /\ wake_word_state = "disabled"

ConcNext ==
    \/ StoreToggle(FALSE, "A", "toggle", "ok") /\ Aside
    \/ \E t \in Tasks : Reload(t) /\ Aside
    \/ \E t \in Tasks : DiscLoop(t) /\ Aside
    \/ \E t \in Tasks : ConnLoop(t, TRUE) /\ Aside
    \/ \E t \in Tasks : CloseEnd(t, "ok", TRUE) /\ Aside
    \/ \E t \in Tasks, up \in BOOLEAN : InitEnd(t, up) /\ Aside
    \/ \E t \in Tasks : FetchEnd(t, "one") /\ Aside
    \/ \E t \in Tasks : Publish(t) /\ Aside
    \/ \E t \in Tasks : Finish(t) /\ Aside

SpecConc == ConcInit /\ [][ConcNext]_vars

\* A connect completes: the new transport is stored in the live map
Stores(t) == task[t].pc = "fetch" /\ task'[t].pc # "fetch"

\* C12: a connect that completes never stores its transport over an entry
\* that is live, so no initialized transport is dropped from the live map
\* without having been closed.
C12_NoDoubleConnect ==
    [][\A t \in Tasks : Stores(t) => task[t].cur \notin DOMAIN servers]_vars


(***************************************************************************)
(* One reload() pass with the Control Surface reading while the pass is    *)
(* suspended at an await.  observed.pre is what a read returned when the   *)
(* pass began, observed.mids what the reads during the pass returned.      *)
(***************************************************************************)
ReadInit ==
    /\ ConcInit

\* A read handler (list_mcp_servers, list_mcp_tools, get_agent_state) runs
\* while reload() is suspended
ReadDuringPass ==
    /\ Quiescent
    /\ \E t \in Tasks : task[t].op = "reload" /\ task[t].pc \in Suspended
    /\ observed' = [observed EXCEPT !.mids = observed.mids \cup {Observation}]
    /\ UNCHANGED <<mgrVars, phase, gateVars, rpc, fetch, det, wake_word_state>>

Quiet == UNCHANGED <<phase, gateVars, rpc, fetch, det, wake_word_state>>

ReadNext ==
    \/ AllIdle /\ LoadFromConfig("t1") /\ Aside
    \/ AllIdle /\ StoreToggle(FALSE, "A", "toggle", "ok") /\ Aside
    \/ /\ AllIdle /\ Reload("t1") /\ Quiet
       /\ observed' = [pre |-> Observation, mids |-> {}]
    \/ ReadDuringPass
    \/ DiscLoop("t1") /\ Aside
    \/ \E created \in BOOLEAN : ConnLoop("t1", created) /\ Aside
    \/ \E o \in {"ok", "raise"} : CloseEnd("t1", o, TRUE) /\ Aside
    \/ \E up \in BOOLEAN : InitEnd("t1", up) /\ Aside
    \/ \E a \in {"nolist", "one"} : FetchEnd("t1", a) /\ Aside
    \/ Publish("t1") /\ Aside
    \/ Finish("t1") /\ Aside

SpecRead == ReadInit /\ [][ReadNext]_vars

\* C13: when a reload pass ends, every read made while it was suspended
\* returned the server list, status records and tool cache either all as
\* they were when the pass began or all as they are at its end.
C13_ConsistentReads ==
    \A t \in Tasks :
        ReloadDone(t) =>
            \A o \in observed.mids : o = observed.pre \/ o = Observation


(***************************************************************************)
(* rpc_handlers.py: the mutating Control Surface calls.  Each handler runs *)
(* its store function and, where the code does so, awaits on_mcp_change(), *)
(* which is reload() (agent.py:112-116): the handler's step ends at the    *)
(* first await of that pass.  rpc keeps the call and its result until   *)
(* the handler returns its reply.                                          *)
(***************************************************************************)
\* The tool the Control Surface switches on and off
Tools == {"t1"}

\* Mutant: the status record is dropped whatever the store function returned
RpcEnd_pops_unchecked(t, opname, name, called, r, notifies, pops) ==
    LET fires == r.ok /\ notifies
        config == load_config(r.file)
        since == IF sinceReload = "same" /\ config # load_config(file)
                 THEN "changed" ELSE sinceReload
        fails == IF since = "same" THEN prevFail ELSE {}
    IN  /\ Quiescent
        /\ task[t].pc = "idle"
        /\ rpc.op = "none"
        /\ file' = r.file
        /\ status' = IF pops THEN Del(status, name) ELSE status
        /\ task' = IF fires
                   THEN [task EXCEPT ![t] =
                            [IdleTask EXCEPT !.pc = "disc", !.op = "reload",
                                             !.snap = config, !.todo = DOMAIN servers,
                                             !.repeat = (since = "same"),
                                             !.prevFail = fails]]
                   ELSE task
        /\ lastEnabled' = IF fires THEN EnabledNames(config) ELSE lastEnabled
        /\ sinceReload' = IF fires THEN "same" ELSE since
        /\ prevFail' = IF fires THEN {} ELSE fails
        /\ rpc' = [op |-> opname, name |-> name, ok |-> r.ok,
                   stored |-> called /\ r.ok,
                   notified |-> IF fires THEN 1 ELSE 0]
        /\ UNCHANGED <<servers, server_configs, tool_cache, rpc_servers, rpc_bound,
                       ret, prevFile>>

\* The end of a handler: r is the store function's result, called tells
\* whether a store function ran, notifies whether the handler has the
\* `if success and self._on_mcp_change` lines, pops whether it drops the
\* status record on success
RpcEnd(t, opname, name, called, r, notifies, pops) ==
    LET fires == r.ok /\ notifies
        config == load_config(r.file)
        since == IF sinceReload = "same" /\ config # load_config(file)
                 THEN "changed" ELSE sinceReload
        fails == IF since = "same" THEN prevFail ELSE {}
    IN  /\ Quiescent
        /\ task[t].pc = "idle"
        /\ rpc.op = "none"
        /\ file' = r.file
        /\ status' = IF pops /\ r.ok THEN Del(status, name) ELSE status
        /\ task' = IF fires
                   THEN [task EXCEPT ![t] =
                            [IdleTask EXCEPT !.pc = "disc", !.op = "reload",
                                             !.snap = config, !.todo = DOMAIN servers,
                                             !.repeat = (since = "same"),
                                             !.prevFail = fails]]
                   ELSE task
        /\ lastEnabled' = IF fires THEN EnabledNames(config) ELSE lastEnabled
        /\ sinceReload' = IF fires THEN "same" ELSE since
        /\ prevFail' = IF fires THEN {} ELSE fails
        /\ rpc' = [op |-> opname, name |-> name, ok |-> r.ok,
                   stored |-> called /\ r.ok,
                   notified |-> IF fires THEN 1 ELSE 0]
        /\ UNCHANGED <<servers, server_configs, tool_cache, rpc_servers, rpc_bound,
                       ret, prevFile>>

\* AgentRpcHandlers._add_mcp_server: c is the payload
_add_mcp_server(t, c, o) ==
    IF c.type = "stdio"
    THEN IF c.command = NoneV
         THEN RpcEnd(t, "add_mcp_server", c.name, FALSE,
                     Result(file, FALSE, "Command is required"), TRUE, FALSE)
         ELSE RpcEnd(t, "add_mcp_server", c.name, TRUE,
                     add_server(file, [c EXCEPT !.url = NoneV, !.headers = NoneV], o),
                     TRUE, FALSE)
    ELSE IF c.url = NoneV
         THEN RpcEnd(t, "add_mcp_server", c.name, FALSE,
                     Result(file, FALSE, "URL is required"), TRUE, FALSE)
         ELSE RpcEnd(t, "add_mcp_server", c.name, TRUE,
                     add_server(file, [c EXCEPT !.command = NoneV, !.args = NoneV,
                                                !.env = NoneV, !.cwd = NoneV], o),
                     TRUE, FALSE)

\* AgentRpcHandlers._remove_mcp_server
_remove_mcp_server(t, name, o) ==
    RpcEnd(t, "remove_mcp_server", name, TRUE, remove_server(file, name, o), TRUE, TRUE)

\* AgentRpcHandlers._toggle_mcp_server
_toggle_mcp_server(t, name, enabled, o) ==
    RpcEnd(t, "toggle_mcp_server", name, TRUE, toggle_server(file, name, enabled, o),
           TRUE, FALSE)

\* AgentRpcHandlers._toggle_mcp_tool: the store function is
\* update_allowed_tools and nothing follows it
_toggle_mcp_tool(t, name, tool, enabled, o) ==
    IF ~HasServer(file, name)
    THEN RpcEnd(t, "toggle_mcp_tool", name, FALSE, Result(file, FALSE, "not found"),
                FALSE, FALSE)
    ELSE LET current_allowed == get_server(file, name).allowed_tools
             cached_tools == IF name \in DOMAIN rpc_tool_cache
                             THEN rpc_tool_cache[name] ELSE <<>>
             new == IF enabled
                    THEN IF tool \in Range(current_allowed.list)
                         THEN current_allowed.list
                         ELSE Append(current_allowed.list, tool)
                    ELSE IF current_allowed.isNone
                         THEN SelectSeq(cached_tools, LAMBDA x : x # tool)
                         ELSE SelectSeq(current_allowed.list, LAMBDA x : x # tool)
         IN  IF enabled /\ current_allowed.isNone
             THEN RpcEnd(t, "toggle_mcp_tool", name, FALSE,
                         Result(file, TRUE, "already enabled"), FALSE, FALSE)
             ELSE RpcEnd(t, "toggle_mcp_tool", name, TRUE,
                         update_allowed_tools(file, name, SomeTools(new), o),
                         FALSE, FALSE)

\* The handler returns json.dumps({"success": ..}); a handler that awaited
\* on_mcp_change() does so when reload() has returned
RpcReply(t) ==
    /\ rpc.op # "none"
    /\ task[t].pc = "idle"
    /\ rpc' = NoRpc
    /\ UNCHANGED <<mgrVars, phase, gateVars, observed, fetch, det, wake_word_state>>

\* The agent after load_from_config() found no server (agent.py:68)
RpcInit ==
    /\ file \in {FileOf(<<>>), BrokenFile}
    /\ servers = EmptyDict
    /\ server_configs = EmptyDict
    /\ tool_cache = EmptyDict
    /\ status = EmptyDict
    /\ rpc_servers = {}
    /\ rpc_bound = TRUE
    /\ task = [t \in Tasks |-> IdleTask]
    /\ lastEnabled = {}
    /\ sinceReload = "no"
    /\ prevFail = {}
    /\ ret = NoRet
    /\ prevFile = NoFile
    /\ phase = 0
    /\ GateIdle
    /\ observed = NoObs
    /\ rpc = NoRpc
    /\ fetch = NoFetch
    /\ det = NoDet
    /\ wake_word_state = "disabled"

RpcAside == UNCHANGED <<phase, gateVars, observed, fetch, det, wake_word_state>>
\* The payloads of add: A is a network server, with or without its address;
\* B is a process server, with or without its command, or a network server
\* at A's address
RpcPayloads ==
    {c \in AddInputs :
        /\ c.enabled
        /\ c.url \in {NoneV, "u1"}
        /\ c.name = "A" => c.type = "http" /\ c.command = NoneV
        /\ c.name = "B" => IF c.type = "http" THEN c.url = "u1" /\ c.command = NoneV
                           ELSE c.url = NoneV}

RpcNext ==
    \/ \E c \in RpcPayloads, o \in SaveOutcomes : _add_mcp_server("t1", c, o) /\ RpcAside
    \/ \E n \in Names, o \in SaveOutcomes : _remove_mcp_server("t1", n, o) /\ RpcAside
    \/ \E n \in Names, e \in {"toggle", "off"}, o \in SaveOutcomes :
          _toggle_mcp_server("t1", n, e, o) /\ RpcAside
    \/ \E n \in Names, tool \in Tools, e \in BOOLEAN, o \in SaveOutcomes :
          _toggle_mcp_tool("t1", n, tool, e, o) /\ RpcAside
    \/ DiscLoop("t1") /\ Aside
    \/ \E created \in BOOLEAN : ConnLoop("t1", created) /\ Aside
    \/ CloseEnd("t1", "ok", TRUE) /\ Aside
    \/ InitEnd("t1", TRUE) /\ Aside
    \/ FetchEnd("t1", "two") /\ Aside
    \/ Publish("t1") /\ Aside
    \/ Finish("t1") /\ Aside
    \/ RpcReply("t1")

SpecRpc == RpcInit /\ [][RpcNext]_vars

Mutating == {"add_mcp_server", "remove_mcp_server", "toggle_mcp_server", "toggle_mcp_tool"}

\* C14: every mutating Control Surface call whose store function succeeded
\* (add_server, remove_server, toggle_server, update_allowed_tools) has
\* invoked on_mcp_change exactly once.
C14_NotifiesOnce ==
    (rpc.op \in Mutating /\ rpc.stored) => rpc.notified = 1


\* C15: a mutating Control Surface call that returns failure has changed
\* nothing in memory (live, the status records, the tool cache, the
\* handlers' server list, the running passes) and has not invoked
\* on_mcp_change.
C15_FailureChangesNothing ==
    [][(rpc.op = "none" /\ rpc'.op \in Mutating /\ ~rpc'.ok) =>
          (Memory' = Memory /\ rpc'.notified = 0)]_vars

\* remove_server failed in the write for a server that is live and has a
\* status record
C15_Witness ==
    /\ rpc.op = "remove_mcp_server"
    /\ ~rpc.ok
    /\ rpc.name \in DOMAIN servers
    /\ rpc.name \in DOMAIN status
    /\ ~file.ok

StoreOps == {"add_server", "remove_server", "toggle_server", "update_allowed_tools"}

\* C16: a store operation whose write failed returns failure, and load()
\* reads back the servers it read before the operation.
C16_WriteFailureKeepsStore ==
    (ret.op \in StoreOps /\ ret.msg = "save failed") =>
        /\ ~ret.ok
        /\ load_config(file) = load_config(prevFile)

\* C17: once stop() has returned, the detector is stopped and no timeout
\* monitor is outstanding, whatever is delivered or called afterwards.
C17_StopIsFinal ==
    stopped => (~running /\ ~MonitorAlive(timeout_task))

(***************************************************************************)
(* mcp_manager.py: fetch_mcp_tools against every answer of the endpoint.   *)
(* JSON values are records tagged with their kind; a str or an object      *)
(* carries its length, a list its items.                                   *)
(***************************************************************************)
Missing == [kind |-> "missing"]
Null == [kind |-> "null"]
EmptyList == [kind |-> "list", items |-> <<>>]
ToolEntries == {[kind |-> "obj", name |-> "t1"], [kind |-> "obj", name |-> "t2"],
                [kind |-> "str", len |-> 1]}
MaxCatalog == 2
Lengths == {0, 1}
ToolsValues ==
    {Missing, Null, [kind |-> "bool"]}
    \cup {[kind |-> "num", v |-> n] : n \in Lengths}
    \cup {[kind |-> "str", len |-> n] : n \in Lengths}
    \cup {[kind |-> "obj", len |-> n] : n \in Lengths}
    \cup {[kind |-> "list", items |-> l] :
             l \in UNION {[1..n -> ToolEntries] : n \in 0..MaxCatalog}}
ResultValues ==
    {Missing, Null, [kind |-> "str", len |-> 1], EmptyList}
    \cup {[kind |-> "obj", tools |-> t] : t \in ToolsValues}
Bodies ==
    {[kind |-> "notjson"], Null, [kind |-> "str", len |-> 1], EmptyList}
    \cup {[kind |-> "obj", error |-> e, result |-> r] :
             e \in BOOLEAN, r \in ResultValues}
Responses ==
    {[transport |-> "error", status |-> 0, body |-> Missing]}
    \cup {[transport |-> "ok", status |-> st, body |-> b] :
             st \in {200, 404, 500}, b \in Bodies}

\* len(x): a TypeError for None, a bool and a number
HasLen(x) == x.kind \in {"str", "obj", "list"}
PyLen(x) == IF x.kind = "list" THEN Len(x.items) ELSE x.len
\* `for t in tools`: the characters of a str, the keys of a dict, the items
\* of a list; t.get exists on a dict only
Iterated(x) ==
    IF x.kind = "list" THEN Range(x.items)
    ELSE IF x.len > 0 THEN {[kind |-> "str", len |-> 1]} ELSE {}

Returns(v) == [raised |-> "no", value |-> v]
Raises(e) == [raised |-> e, value |-> Missing]

\* fetch_mcp_tools, lines 34-58: the body of the try
tools_list(resp) ==
    IF resp.transport = "error" THEN Raises("httpx.TransportError")
    ELSE IF resp.status \notin 200..299 THEN Raises("httpx.HTTPStatusError")
    ELSE IF resp.body.kind = "notjson" THEN Raises("JSONDecodeError")
    ELSE LET data == resp.body IN
    IF data.kind # "obj" THEN Raises("AttributeError")
    ELSE IF data.error THEN Returns(EmptyList)
    ELSE LET result == IF data.result = Missing
                       THEN [kind |-> "obj", tools |-> Missing]
                       ELSE data.result IN
    IF result.kind # "obj" THEN Raises("AttributeError")
    ELSE LET tools == IF result.tools = Missing THEN EmptyList ELSE result.tools IN
    IF ~HasLen(tools) THEN Raises("TypeError")
    ELSE IF PyLen(tools) > 0 /\ \E t \in Iterated(tools) : t.kind # "obj"
    THEN Raises("AttributeError")
    ELSE Returns(tools)

\* fetch_mcp_tools: `except Exception` returns []
fetch_mcp_tools(resp) ==
    LET r == tools_list(resp) IN
    IF r.raised = "no" THEN r ELSE Returns(EmptyList)

FetchInit ==
    /\ MgrInit
    /\ phase = 0
    /\ GateIdle
    /\ observed = NoObs
    /\ rpc = NoRpc
    /\ fetch = NoFetch
    /\ det = NoDet
    /\ wake_word_state = "disabled"

FetchAside == UNCHANGED <<mgrVars, phase, gateVars, observed, rpc, det, wake_word_state>>

\* client.post is awaited and the endpoint answers
FetchCall ==
    /\ fetch.pc = "idle"
    /\ \E resp \in Responses : fetch' = [pc |-> "posted", resp |-> resp]
    /\ FetchAside

FetchReturn ==
    /\ fetch.pc = "posted"
    /\ fetch' = [pc |-> "returned", resp |-> fetch.resp, out |-> fetch_mcp_tools(fetch.resp)]
    /\ FetchAside

FetchAgain ==
    /\ fetch.pc = "returned"
    /\ fetch' = NoFetch
    /\ FetchAside

FetchNext ==
    \/ FetchCall
    \/ FetchReturn
    \/ FetchAgain

SpecFetch == FetchInit /\ [][FetchNext]_vars

\* The answers the claim calls failures
WellFormed(resp) ==
    /\ resp.transport = "ok"
    /\ resp.status \in 200..299
    /\ resp.body.kind = "obj"
    /\ ~resp.body.error
    /\ resp.body.result.kind = "obj"
    /\ resp.body.result.tools.kind = "list"

\* C18: for a transport error, a non-success response, a JSON-RPC error
\* object and every malformed payload, fetch_mcp_tools raises nothing and
\* returns the list [].
C18_EmptyOnFailure ==
    (fetch.pc = "returned" /\ ~WellFormed(fetch.resp)) =>
        fetch.out = Returns(EmptyList)

\* C19: no call of process_audio ends by raising: an exception of the
\* inference on a frame stays inside the call.
C19_InferenceErrorContained ==
    ~raised

(***************************************************************************)
(* list_mcp_servers read between the steps of the passes that add and      *)
(* toggle calls start.                                                     *)
(***************************************************************************)
UnknownStatus == [status |-> "unknown", error |-> NoneV, tool_count |-> 0]

\* AgentRpcHandlers._list_mcp_servers: the reply, and the status records as
\* the loop leaves them.  dict.get hands out the stored record itself, and
\* the handler writes "disabled" into it (lines 475-483).
_list_mcp_servers(f, st) ==
    LET config == load_config(f)
        info(c) == IF c.name \in DOMAIN st THEN st[c.name] ELSE UnknownStatus
    IN  [servers |-> [i \in DOMAIN config |->
                         [name |-> config[i].name,
                          enabled |-> config[i].enabled,
                          status |-> IF ~config[i].enabled THEN "disabled"
                                     ELSE info(config[i]).status,
                          error |-> info(config[i]).error,
                          tool_count |-> info(config[i]).tool_count]],
         status |-> [n \in DOMAIN st |->
                        IF \E i \in DOMAIN config :
                              config[i].name = n /\ ~config[i].enabled
                        THEN [st[n] EXCEPT !.status = "disabled"]
                        ELSE st[n]]]

ListServers ==
    /\ Quiescent
    /\ LET r == _list_mcp_servers(file, status) IN
       /\ ret' = [op |-> "list_mcp_servers", name |-> NoneV, cfg |-> NoCfg, ok |-> TRUE,
                  msg |-> "", tools |-> r.servers]
       /\ status' = r.status
    /\ prevFile' = file
    /\ UNCHANGED <<file, servers, server_configs, tool_cache, rpc_servers,
                   rpc_bound, task, lastEnabled, sinceReload, prevFail>>

ListPayloads ==
    {MCPServerConfig("A", "http", "u1", NoneV, NoneV, NoneV, NoneV, NoneV, TRUE, NoneTools),
     MCPServerConfig("B", "stdio", NoneV, NoneV, "c1", NoneV, NoneV, NoneV, TRUE, NoneTools)}

ListNext ==
    \/ \E c \in ListPayloads : _add_mcp_server("t1", c, "ok") /\ RpcAside
    \/ \E n \in Names : _toggle_mcp_server("t1", n, "toggle", "ok") /\ RpcAside
    \/ DiscLoop("t1") /\ Aside
    \/ \E created \in BOOLEAN : ConnLoop("t1", created) /\ Aside
    \/ CloseEnd("t1", "ok", TRUE) /\ Aside
    \/ \E up \in BOOLEAN : InitEnd("t1", up) /\ Aside
    \/ \E a \in {"nolist", "one"} : FetchEnd("t1", a) /\ Aside
    \/ Publish("t1") /\ Aside
    \/ Finish("t1") /\ Aside
    \/ RpcReply("t1")
    \/ ListServers /\ Aside
    \/ \E n \in Names : ListTools(n) /\ Aside
    \/ Return /\ Aside

SpecList == RpcInit /\ [][ListNext]_vars

\* C20: the reply of list_mcp_servers has one entry per configured server,
\* in order; a server that is not enabled is reported disabled, an enabled
\* server without a status record unknown, and an enabled server with a
\* record as that record says: connected with its tool_count or error with
\* its message.
C20_ListServers ==
    ret.op = "list_mcp_servers" =>
        LET config == load_config(file) IN
        /\ Len(ret.tools) = Len(config)
        /\ \A i \in DOMAIN config :
              LET e == ret.tools[i]
                  c == config[i]
              IN  /\ e.name = c.name
                  /\ ~c.enabled => e.status = "disabled"
                  /\ (c.enabled /\ c.name \notin DOMAIN status) => e.status = "unknown"
                  /\ (c.enabled /\ c.name \in DOMAIN status) =>
                        /\ e.status \in {"connected", "error"}
                        /\ e.status = status[c.name].status
                        /\ e.error = status[c.name].error
                        /\ e.tool_count = status[c.name].tool_count

ReadOps == {"list_mcp_servers", "list_mcp_tools"}

\* C21: a Control Surface read (list_mcp_servers, list_mcp_tools) leaves
\* live, the status records, the tool cache and the file as they were.
C21_ReadsArePure ==
    [][(ret.op = "none" /\ ret'.op \in ReadOps) =>
          (Memory' = Memory /\ file' = file)]_vars

(***************************************************************************)
(* The manager, serialized, over transports whose aclose() always raises.  *)
(***************************************************************************)
CloseNext ==
    \/ \E c \in {x \in MgrInputs : x.enabled} : AllIdle /\ StoreAdd(FALSE, c, "ok") /\ Aside
    \/ \E n \in Names : AllIdle /\ StoreRemove(FALSE, n, "ok") /\ Aside
    \/ \E n \in Names : AllIdle /\ StoreToggle(FALSE, n, "toggle", "ok") /\ Aside
    \/ AllIdle /\ Reload("t1") /\ Aside
    \/ \E n \in Names : AllIdle /\ ManagerRemove("t1", n) /\ Aside
    \/ DiscLoop("t1") /\ Aside
    \/ ConnLoop("t1", TRUE) /\ Aside
    \/ \E created \in BOOLEAN : CloseEnd("t1", "raise", created) /\ Aside
    \/ InitEnd("t1", TRUE) /\ Aside
    \/ FetchEnd("t1", "one") /\ Aside
    \/ Publish("t1") /\ Aside
    \/ Finish("t1") /\ Aside

SpecClose == Init /\ [][CloseNext]_vars

Gone(d, n) == n \notin DOMAIN d

\* C22: when the await in _disconnect_server ends, also by an exception of
\* the close, the name is gone from live, from the stored configs and from
\* the tool cache and nothing is raised; remove_server of a name that is
\* not live changes none of the three.
C22_DisconnectRemoves ==
    [][\A t \in Tasks :
          /\ (task[t].pc = "closing" /\ task'[t].pc # "closing") =>
                /\ Gone(servers', task[t].cur)
                /\ Gone(server_configs', task[t].cur)
                /\ Gone(tool_cache', task[t].cur)
                /\ task'[t].result # "raised"
          /\ (task[t].pc = "idle" /\ task'[t].op = "remove" /\ task'[t].pc = "done") =>
                /\ servers' = servers
                /\ server_configs' = server_configs
                /\ tool_cache' = tool_cache]_vars

\* A remove_server whose close raised has returned True, the name gone
C22_Witness ==
    \E t \in Tasks :
        /\ task[t].op = "remove"
        /\ task[t].pc = "done"
        /\ task[t].ndisc = 1
        /\ task[t].result = "true"
        /\ Gone(servers, task[t].cur)
        /\ Gone(tool_cache, task[t].cur)
        /\ servers # EmptyDict

\* C23: with passes interleaving at the await of the close, no two of them
\* are closing the same live connection, and none of them raises.
C23_NoDoubleClose ==
    /\ \A t, u \in Tasks :
          (t # u /\ task[t].pc = "closing" /\ task[u].pc = "closing") =>
              task[t].cur # task[u].cur
    /\ \A t \in Tasks : task[t].result # "raised"

(***************************************************************************)
(* The manager, serialized, over a store whose entries are replaced by     *)
(* entries of another endpoint or transport kind and whose tool filters    *)
(* are edited, between reloads.                                            *)
(***************************************************************************)
ChangeInputs == {c \in ValidInputs : c.enabled}

ChangeNext ==
    \/ \E c \in ChangeInputs : AllIdle /\ StoreAdd(FALSE, c, "ok") /\ Aside
    \/ \E n \in Names : AllIdle /\ StoreRemove(FALSE, n, "ok") /\ Aside
    \/ \E n \in Names, a \in {NoneTools, SomeTools(<<"t1">>)} :
          AllIdle /\ StoreAllowed(FALSE, n, a, "ok") /\ Aside
    \/ AllIdle /\ Reload("t1") /\ Aside
    \/ DiscLoop("t1") /\ Aside
    \/ ConnLoop("t1", TRUE) /\ Aside
    \/ CloseEnd("t1", "ok", TRUE) /\ Aside
    \/ \E up \in BOOLEAN : InitEnd("t1", up) /\ Aside
    \/ FetchEnd("t1", "one") /\ Aside
    \/ Publish("t1") /\ Aside
    \/ Finish("t1") /\ Aside

SpecChange == Init /\ [][ChangeNext]_vars

\* The transport kind, or the parameters of the stored kind, differ
ParamsDiffer(old, new) ==
    \/ old.type # new.type
    \/ old.type = "http" /\ (old.url # new.url \/ old.headers # new.headers)
    \/ old.type = "stdio" /\ (\/ old.command # new.command
                              \/ old.args # new.args
                              \/ old.env # new.env
                              \/ old.cwd # new.cwd)

C25_DisconnectsBeforeConnects ==
    [][\A t \in Tasks :
          task'[t].op = "reload" =>
             /\ (/\ task[t].pc # "closing" /\ task'[t].pc = "closing"
                 /\ task'[t].after = "disc") => task'[t].nconn = 0
             /\ task'[t].pc = "disc" => task'[t].nconn = 0
             /\ (task[t].nconn = 0 /\ task'[t].nconn = 1) =>
                   /\ task[t].pc \in {"conn", "closing"}
                   /\ task[t].pc = "closing" => task[t].after = "reconnect"
                   /\ DOMAIN servers' \subseteq EnabledNames(task[t].snap)]_vars

\* A pass that disconnected a server removed from the file is awaiting its
\* first connect, of a new server
C25_Witness ==
    \E t \in Tasks :
        /\ task[t].op = "reload" /\ task[t].pc = "init"
        /\ task[t].after = "disc"
        /\ task[t].ndisc = 1 /\ task[t].nconn = 1
        /\ task[t].cur \notin DOMAIN servers
        /\ ConfigNames(task[t].snap) = {task[t].cur}

InError(st, n) == n \in DOMAIN st /\ st[n].status = "error"

\* C26: connects are attempted by reload passes, the initial load and
\* add_server only; while no such operation runs, a server whose status
\* record says error keeps that record and stays out of live; and a reload
\* pass that reaches its end has attempted every enabled server that is not
\* live.
C26_NoRetry ==
    [][/\ \A t \in Tasks :
             task'[t].nconn > task[t].nconn => task'[t].op \in {"reload", "load", "add"}
       /\ \A n \in Names :
             (/\ InError(status, n) /\ n \notin DOMAIN servers
              /\ AllIdle /\ \A t \in Tasks : task'[t].pc = "idle") =>
                 /\ n \notin DOMAIN servers'
                 /\ InError(status', n) \/ rpc'.op = "remove_mcp_server"
       /\ \A t \in Tasks :
             (task[t].op = "reload" /\ task[t].pc = "conn" /\ task'[t].pc = "publish") =>
                 EnabledNames(task[t].snap) \subseteq DOMAIN servers \cup task[t].failNames
      ]_vars

\* C27: a handler task that runs while the gate is ACTIVE sets the time of
\* the last activity and nothing else: the gate stays ACTIVE, on_activate is
\* not invoked, and the monitor is the one there was, in the position it
\* had.
C27_EventInActiveRefreshes ==
    [][(pending' < pending /\ is_active) =>
          /\ is_active'
          /\ last_activity_time' = now
          /\ on_activate_calls' = on_activate_calls
          /\ timeout_task' = timeout_task
          /\ orphans' = orphans
          /\ UNCHANGED <<now, running, on_wake_word, threshold, cooldown_seconds,
                         last_detection_time, audio_buffer, timeout_seconds,
                         on_deactivate_calls, stopped>>]_vars

\* The event of this instant was handled in a gate that went ACTIVE earlier
\* and whose monitor sleeps since
C27_Witness ==
    /\ is_active
    /\ on_activate_calls = 1
    /\ on_deactivate_calls = 0
    /\ pending = 0
    /\ last_detection_time = now
    /\ last_activity_time = now
    /\ timeout_task.state = "sleeping"
    /\ timeout_task.wake < now + PollTicks
    /\ orphans = 0

\* C28: on_deactivate is invoked by a monitor that woke from its sleep with
\* the timeout passed, in a gate that was ACTIVE; at the invocation the gate
\* is LISTENING and the detector's buffer is empty; every step that ends an
\* ACTIVE period invokes it once; and the monitor that awaits it invokes
\* nothing more and ends (or goes on beside the monitor of a new period),
\* its only next positions being done and cancelled.
C28_DeactivationOrder ==
    [][/\ (on_deactivate_calls' # on_deactivate_calls) =>
             /\ on_deactivate_calls' = on_deactivate_calls + 1
             /\ timeout_task.state = "sleeping"
             /\ now - last_activity_time >= timeout_seconds
             /\ is_active /\ ~is_active'
             /\ audio_buffer' = 0
             /\ timeout_task'.state = "deactivating"
       /\ (is_active /\ ~is_active') => on_deactivate_calls' = on_deactivate_calls + 1
       /\ (timeout_task.state = "deactivating" /\ timeout_task' # timeout_task) =>
             /\ on_deactivate_calls' = on_deactivate_calls
             /\ \/ timeout_task'.state \in {"done", "cancelled"}
                \/ timeout_task'.state = "created" /\ orphans' = orphans + 1
       /\ (orphans' < orphans) => on_deactivate_calls' = on_deactivate_calls]_vars

\* The first ACTIVE period ended by timeout, on_deactivate has returned and
\* the monitor has ended; audio has arrived since the reset
C28_Witness ==
    /\ ~is_active
    /\ on_activate_calls = 1
    /\ on_deactivate_calls = 1
    /\ timeout_task.state = "done"
    /\ orphans = 0
    /\ running
    /\ audio_buffer > 0

\* The monitor tasks that have not ended
Outstanding == orphans + Unfinished(timeout_task)

\* C29: at no moment is more than one timeout monitor task outstanding,
\* also when a wake-word event is handled while a monitor awaits
\* on_deactivate.
C29_SingleMonitor == Outstanding <= 1

(***************************************************************************)
(* The gated session on an event loop that runs every task that is ready:  *)
(* a created monitor starts, a monitor whose sleep is over wakes, and time *)
(* goes on.  Audio arrives one frame at a time.                            *)
(***************************************************************************)
GateAside == UNCHANGED <<mgrVars, phase, observed, rpc, fetch, det, wake_word_state>>
MonitorStartStep == MonitorStart /\ GateAside
MonitorPollStep == MonitorPoll /\ GateAside
TickStep == Tick /\ GateAside

GateLiveNext ==
    \/ GateStart(TRUE) /\ GateAside
    \/ \E c \in {DEFAULT_THRESHOLD - 1, DEFAULT_THRESHOLD} :
          ProcessAudio(FRAME_SIZE, [i \in {1} |-> c]) /\ GateAside
    \/ HandleWakeWord /\ GateAside
    \/ MonitorStartStep
    \/ MonitorPollStep
    \/ DeactivateEnd /\ GateAside
    \/ OrphanEnd /\ GateAside
    \/ RefreshActivity /\ GateAside
    \/ GateStop /\ GateAside
    \/ TickStep

SpecGateLive ==
    /\ GateInit
    /\ [][GateLiveNext]_vars
    /\ WF_vars(MonitorStartStep)
    /\ WF_vars(MonitorPollStep)
    /\ WF_vars(TickStep)

\* C30: an ACTIVE gate that was not stopped has a monitor that is created
\* or sleeping, in its first ACTIVE period and in every later one; and an
\* ACTIVE gate that is not stopped leaves ACTIVE unless its activity is
\* refreshed to a later time (as far as the ticks of the model reach).
C30_EveryPeriodMonitored ==
    /\ []((is_active /\ ~stopped) => MonitorAlive(timeout_task))
    /\ \A t0 \in 0..MaxTime :
          (/\ is_active /\ ~stopped
           /\ last_activity_time = t0
           /\ t0 + timeout_seconds + PollTicks <= MaxTime)
          ~> (~is_active \/ stopped \/ last_activity_time # t0)

\* The gate is in its second ACTIVE period and its monitor sleeps
C30_Witness ==
    /\ is_active
    /\ ~stopped
    /\ on_activate_calls = 2
    /\ on_deactivate_calls = 1
    /\ timeout_task.state = "sleeping"

(***************************************************************************)
(* The detector alone, constructed with or without a callback: it is       *)
(* started (the model loads or not), fed chunks of every size with every   *)
(* prediction, reset and stopped at any moment; the callback tasks it      *)
(* created run when the loop gets to them.                                 *)
(***************************************************************************)
DetAside == UNCHANGED <<mgrVars, phase, observed, rpc, fetch, wake_word_state>>

DetFrame == UNCHANGED <<now, on_wake_word, threshold, cooldown_seconds,
                        last_detection_time, timeout_seconds, is_active,
                        last_activity_time, timeout_task, pending,
                        on_activate_calls, on_deactivate_calls, suppressed,
                        lapsed, stopped, raised, orphans>>

\* What a call of the detector is seen to do
Seen(opname, r) ==
    [op |-> opname, was_running |-> running,
     before |-> audio_buffer, blocks |-> r.blocks, conf |-> r.conf,
     last |-> last_detection_time, frames |-> r.frames, result |-> r.result,
     notes |-> r.notes, raised |-> r.raised]

Nothing == [blocks |-> 0, conf |-> <<>>, frames |-> 0, result |-> <<>>,
            notes |-> <<>>, raised |-> FALSE]

\* WakeWordDetector.start; loaded: the import and the model load succeed
DetStart(loaded) ==
    /\ running' = (running \/ loaded)
    /\ det' = Seen("start", [Nothing EXCEPT !.raised = ~running /\ ~loaded])
    /\ UNCHANGED audio_buffer
    /\ DetFrame

\* Mutant: stop() keeps the buffered audio
DetStop_keeps_buffer ==
    /\ running' = FALSE
    /\ UNCHANGED audio_buffer
    /\ det' = Seen("stop", Nothing)
    /\ DetFrame

\* WakeWordDetector.stop
DetStop ==
    /\ running' = FALSE
    /\ audio_buffer' = 0
    /\ det' = Seen("stop", Nothing)
    /\ DetFrame

\* WakeWordDetector.reset
DetReset ==
    /\ audio_buffer' = 0
    /\ det' = Seen("reset", Nothing)
    /\ UNCHANGED running
    /\ DetFrame

\* process_audio, with what the caller and the event loop get from it
ProcessAudioSeen(blocks, conf) ==
    /\ ProcessAudio(blocks, conf)
    /\ det' = Seen("process_audio",
                   IF ~running THEN [Nothing EXCEPT !.blocks = blocks, !.conf = conf]
                   ELSE LET st == process_audio(blocks, conf).st IN
                        [blocks |-> blocks, conf |-> conf, frames |-> st.frames,
                         result |-> st.result, notes |-> st.notes,
                         raised |-> st.raised])

\* agent.py, line 220: the agent's callback is assigned to the detector
SetCallback ==
    /\ on_wake_word = "none"
    /\ on_wake_word' = "agent"
    /\ UNCHANGED <<now, running, threshold, cooldown_seconds,
                   last_detection_time, audio_buffer, timeout_seconds, is_active,
                   last_activity_time, timeout_task, pending, on_activate_calls,
                   on_deactivate_calls, suppressed, lapsed, stopped, raised,
                   orphans, det>>

\* A task created for the callback runs
CallbackRuns ==
    /\ pending > 0
    /\ pending' = pending - 1
    /\ UNCHANGED <<now, running, on_wake_word, threshold, cooldown_seconds,
                   last_detection_time, audio_buffer, timeout_seconds, is_active,
                   last_activity_time, timeout_task, on_activate_calls,
                   on_deactivate_calls, suppressed, lapsed, stopped, raised,
                   orphans, det>>

DetInit ==
    /\ MgrInit
    /\ phase = 0
    /\ GateConstructed
    /\ now = Epoch
    /\ cooldown_seconds \in Cooldowns
    /\ timeout_seconds = TicksPerSecond
    /\ observed = NoObs
    /\ rpc = NoRpc
    /\ fetch = NoFetch
    /\ det = NoDet
    /\ wake_word_state = "disabled"

\* The caller has the outcome of the call
DetReturn ==
    /\ det.op # "none"
    /\ det' = NoDet
    /\ UNCHANGED gateVars

NoCall == det.op = "none"

DetNext ==
    \/ \E loaded \in BOOLEAN : NoCall /\ DetStart(loaded) /\ DetAside
    \/ NoCall /\ DetStop /\ DetAside
    \/ NoCall /\ DetReset /\ DetAside
    \/ \E blocks \in 1..MaxChunk :
       \E conf \in [1..((audio_buffer + blocks) \div FRAME_SIZE) -> Predictions] :
          NoCall /\ ProcessAudioSeen(blocks, conf) /\ DetAside
    \/ DetReturn /\ DetAside
    \/ NoCall /\ SetCallback /\ DetAside
    \/ NoCall /\ CallbackRuns /\ DetAside
    \/ NoCall /\ Tick /\ GateAside

SpecDet == DetInit /\ [][DetNext]_vars

\* A call of process_audio on a running detector has just ended
Fed == det.op = "none" /\ det'.op = "process_audio" /\ det'.was_running

\* C31: a call of process_audio on a running detector leaves less than one
\* frame in the buffer and has run one inference for every complete frame
\* of what the buffer held plus what was fed, nothing dropped: the frames
\* taken and the bytes left add up to the bytes there were.
C31_Framing ==
    [][Fed => /\ audio_buffer' < FRAME_SIZE
              /\ det'.frames = (det'.before + det'.blocks) \div FRAME_SIZE
              /\ det'.frames * FRAME_SIZE + audio_buffer' = det'.before + det'.blocks]_vars

\* The frames of the call that the claim has reported: those at or over the
\* threshold, if the cooldown had passed when the call began; with a
\* cooldown, only the first of them
Qualifying(call) == {i \in 1..call.frames : call.conf[i] >= threshold}
Expected(call) ==
    IF now - call.last < cooldown_seconds THEN {}
    ELSE IF cooldown_seconds = 0 THEN Qualifying(call)
    ELSE {i \in Qualifying(call) : \A j \in Qualifying(call) : i <= j}

C33_SameEvent ==
    [][(Fed /\ on_wake_word # "none" /\ ~det'.raised) =>
          /\ (det'.result # <<>>) <=> (det'.notes # <<>>)
          /\ Len(det'.notes) <= 1
          /\ det'.notes \in {<<>>, <<det'.result>>}]_vars

Called(opname) == det.op = "none" /\ det'.op = opname

\* C34: start() on a stopped detector either loads the model and runs, or
\* raises to its caller and leaves the detector stopped; start() on a
\* running detector changes nothing; process_audio on a stopped detector
\* returns None, creates no callback task and leaves the buffer as it was;
\* stop() leaves the detector stopped with an empty buffer.
C34_Lifecycle ==
    [][/\ Called("start") =>
             /\ det'.was_running => (~det'.raised /\ UNCHANGED gateVars)
             /\ ~det'.was_running => (det'.raised <=> ~running')
             /\ audio_buffer' = audio_buffer
       /\ (Called("process_audio") /\ ~det'.was_running) =>
             /\ det'.result = <<>> /\ det'.notes = <<>> /\ ~det'.raised
             /\ UNCHANGED <<running, audio_buffer, pending, last_detection_time>>
       /\ Called("stop") => (~running' /\ audio_buffer' = 0 /\ ~det'.raised)
       /\ ~running' => audio_buffer' = 0]_vars

\* A detector that ran, detected and was stopped has failed to start again
C34_Witness ==
    /\ det.op = "start" /\ det.raised
    /\ ~det.was_running
    /\ ~running
    /\ last_detection_time > 0
    /\ audio_buffer = 0

SaysConnected(n) == n \in DOMAIN status /\ status[n].status = "connected"

\* C35: while no manager operation is in flight, the names whose status
\* record says connected are the live names, and the tool_count of such a
\* record is the length of the name's cached catalog.
C35_StatusMatchesLive ==
    AllIdle =>
        \A n \in Names :
            /\ SaysConnected(n) <=> n \in DOMAIN servers
            /\ SaysConnected(n) =>
                  status[n].tool_count = Len(Lookup(tool_cache, n)[1])

\* C36: the entries of the persisted file have pairwise distinct names, its
\* http entries pairwise distinct URLs, and every entry has the field its
\* transport kind requires, after every sequence of store calls, failed
\* ones included.
C36_StoreUnique ==
    LET config == load_config(file) IN
    \A i \in DOMAIN config :
        /\ validate_type_fields(config[i])
        /\ \A j \in DOMAIN config :
              i # j => /\ config[i].name # config[j].name
                       /\ (config[i].type = "http" /\ config[j].type = "http") =>
                              config[i].url # config[j].url

\* An add of a second http entry, with a URL of its own, was stored
C36_Witness ==
    /\ ret.op = "add_server" /\ ret.ok
    /\ Len(load_config(file)) = 2
    /\ Len(load_config(prevFile)) = 1
    /\ \A i \in DOMAIN load_config(file) : load_config(file)[i].type = "http"

\* The enabled flag list_mcp_tools reports for tool x of server n when the
\* stored configuration is f and the server's cached catalog is cat
ToolFlag(f, cat, n, x) ==
    LET r == _list_mcp_tools(f, Put(EmptyDict, n, cat), n) IN
    \E i \in DOMAIN r.tools : r.tools[i].name = x /\ r.tools[i].enabled

Catalogs == {RemoteCatalog(r) : r \in {"one", "two"}}

\* C37: a successful toggle_mcp_tool(server, tool, enabled) changes what
\* list_mcp_tools reports for that tool only: for every catalog the server
\* has or obtains at a later connect, the toggled tool is reported with the
\* requested value and every other tool with the value it had before.
C37_ToggleOneTool ==
    [][\A n \in Names, tool \in Tools, e \in BOOLEAN, o \in SaveOutcomes :
          (_toggle_mcp_tool("t1", n, tool, e, o) /\ RpcAside /\ rpc'.ok) =>
              \A cat \in Catalogs : \A x \in Range(cat) :
                  ToolFlag(file', cat, n, x) =
                      IF x = tool THEN e ELSE ToolFlag(file, cat, n, x)]_vars

(***************************************************************************)
(* agent.py: the wake word parts of entrypoint.  The handlers are created *)
(* with _wake_word_state "disabled"; entrypoint reports the configuration, *)
(* assigns on_wake_word_detected to the detector, constructs the gated     *)
(* session and starts the detector.  WakeWordGatedSession.start, which     *)
(* would wrap the callback with _handle_wake_word, is not called, and the  *)
(* session's speech events refresh the gate only when it is ACTIVE         *)
(* (lines 149-150, 163-164).                                               *)
(***************************************************************************)
\* entrypoint, the model of the detector loads
Entrypoint ==
    /\ on_wake_word = "none"
    /\ ~running
    /\ wake_word_state' = "listening"
    /\ on_wake_word' = "agent"
    /\ running' = TRUE
    /\ UNCHANGED <<now, threshold, cooldown_seconds, last_detection_time,
                   audio_buffer, timeout_seconds, is_active, last_activity_time,
                   timeout_task, pending, on_activate_calls, on_deactivate_calls,
                   suppressed, lapsed, stopped, raised, orphans>>

\* on_wake_word_detected: the task the detector created for it runs
on_wake_word_detected ==
    /\ on_wake_word = "agent"
    /\ pending > 0
    /\ pending' = pending - 1
    /\ wake_word_state' = "active"
    /\ UNCHANGED <<now, running, on_wake_word, threshold, cooldown_seconds,
                   last_detection_time, audio_buffer, timeout_seconds, is_active,
                   last_activity_time, timeout_task, on_activate_calls,
                   on_deactivate_calls, suppressed, lapsed, stopped, raised,
                   orphans>>

AgentAside == UNCHANGED <<mgrVars, phase, observed, rpc, fetch, det>>

AgentInit ==
    /\ MgrInit
    /\ phase = 0
    /\ GateParams
    /\ observed = NoObs
    /\ rpc = NoRpc
    /\ fetch = NoFetch
    /\ det = NoDet
    /\ wake_word_state = "disabled"

AgentNext ==
    \/ Entrypoint /\ AgentAside
    \/ \E blocks \in 1..MaxChunk :
       \E conf \in [1..((audio_buffer + blocks) \div FRAME_SIZE) -> Predictions] :
          running /\ ProcessAudio(blocks, conf) /\ GateAside
    \/ on_wake_word_detected /\ AgentAside
    \/ Tick /\ GateAside

SpecAgent == AgentInit /\ [][AgentNext]_vars

\* C38: the state get_wake_word_state reports is active only while the
\* gated session is ACTIVE.
C38_ReportedFollowsGate == wake_word_state = "active" => is_active

(***************************************************************************)
(* The store and reload with saves that fail: a save that fails after      *)
(* open(path, "w") leaves a file that does not parse.  Store calls and     *)
(* reload passes run one at a time.                                        *)
(***************************************************************************)
LoadNext ==
    \/ \E c \in MgrInputs, o \in SaveOutcomes :
          AllIdle /\ ret.op = "none" /\ StoreAdd(TRUE, c, o) /\ Aside
    \/ \E n \in Names, o \in SaveOutcomes :
          AllIdle /\ ret.op = "none" /\ StoreRemove(TRUE, n, o) /\ Aside
    \/ Return /\ Aside
    \/ AllIdle /\ ret.op = "none" /\ Reload("t1") /\ Aside
    \/ DiscLoop("t1") /\ Aside
    \/ \E created \in BOOLEAN : ConnLoop("t1", created) /\ Aside
    \/ \E o \in {"ok", "raise"}, created \in BOOLEAN :
          CloseEnd("t1", o, created) /\ Aside
    \/ \E up \in BOOLEAN : InitEnd("t1", up) /\ Aside
    \/ \E a \in {"nolist", "one"} : FetchEnd("t1", a) /\ Aside
    \/ Publish("t1") /\ Aside
    \/ Finish("t1") /\ Aside

SpecLoad == Init /\ [][LoadNext]_vars

====
